---- MODULE Spec2Model ----
(***************************************************************************)
(* TrailSense: the risk / derived-metrics engine of src/utils/riskUtils.ts *)
(* as a state machine.  A state holds one set of inputs (user profile,     *)
(* trip data, start time) and the values the engine derived from them.     *)
(*                                                                         *)
(* Number representation.  TLA+ has integers only, so                      *)
(*   - data.distanceKm is held in tenths of a kilometre (Km(5) = 50),      *)
(*   - data.elevationM in metres, data.tempC in degrees Celsius.           *)
(* Every threshold of the code (5, 7.5, 12, 18, 20, 30 km; 300 .. 2250 m)  *)
(* is a whole number of these units, so each comparison of the code is     *)
(* decided exactly.                                                        *)
(*                                                                         *)
(* Strings the code inspects (weatherCondition, startTime) are sequences   *)
(* of one-character strings, so that toLowerCase, includes, split and      *)
(* parseInt are computed character by character as the code computes them. *)
(***************************************************************************)
EXTENDS Integers, Sequences, FiniteSets, TLC

VARIABLES
    user,          \* UserProfile: [experience, fitness]
    data,          \* TripData: [distanceKm, elevationM, weatherCondition, tempC]
    startTime,     \* hikeDetails.startTime, the string handed to the engine
    startHour,     \* the hour entered in the time field (-1: field left empty)
    startMinute,   \* the minute entered in the time field
    riskAnalysis,  \* << >> before calculateRiskAnalysis ran, <<RiskAnalysis>> after
    warnings,      \* << >> before generateWarnings ran, <<WarningChip[]>> after
    turnaround,    \* << >> before calculateTurnaroundTime ran, <<"H:MM">> after
    packWeight,    \* << >> before estimatePackWeight ran, <<tenths of a kg>> after
    ulScore,       \* << >> before calculateULScore ran, <<score>> after
    \* ReportView (src/components/ReportView.tsx), used by SpecWhatIf only:
    report,          \* the report prop: 0 for null, else the identity of the
                     \* TripReport object, whose report.data is data
    whatIfData,      \* << >> for null, else <<[report, data]>>: the report.data
                     \* object stored by setWhatIfData
    whatIfRisk,      \* << >> for null, else <<RiskAnalysis>>
    whatIfWarnings,  \* WarningChip[]
    whatIfULScore,   \* number
    tempAdjust, distAdjust, timeAdjust, weightAdjust,   \* slider deltas
    weatherOverride, \* << >> for '', else the chosen weather text
    fitnessOverride, \* "" or 'low' | 'medium' | 'high'
    rendered,        \* << >> before the first render, else <<the props and
                     \* state the latest render (and its effects) closed over>>
    pending,         \* the effects of the latest render that have yet to run
    hypo,            \* << >>, else <<the arguments the recompute effect handed
                     \* to the engine the last time it ran>>
    \* The report provider and App (src/unnamed/part_003, src/unnamed/part_000):
    response,        \* what the provider call of generateTripReport comes to:
                     \* [failed, dataBlock], dataBlock << >> when the text has
                     \* no ---DATA--- block, else <<the lines of the block>>
    tripReport,      \* << >> while generateTripReport is pending, else <<the
                     \* TripReport it resolved with>> (its data field)
    appReport,       \* App's report state: << >> for null, else <<TripReport>>
    \* App's history (src/unnamed/part_000), used by SpecHistory only:
    step,              \* 'form' | 'report'
    isGenerating,      \* a report is being generated
    history,           \* HistoryItem[], newest first: [id, report, riskAnalysis]
    persisted,         \* localStorage 'trailsense_history', parsed
    activeHistoryItem, \* << >> for null, else <<HistoryItem>>
    inflight,          \* the handler invocations waiting for the provider,
                       \* each with the history its closure captured
    nextId             \* stands for Date.now(): the next id to hand out

adjustVars ==
    <<tempAdjust, distAdjust, timeAdjust, weightAdjust, weatherOverride,
      fitnessOverride>>

whatIfResultVars == <<whatIfRisk, whatIfWarnings, whatIfULScore, hypo>>

whatIfVars ==
    <<report, whatIfData, adjustVars, whatIfResultVars, rendered, pending>>

historyVars ==
    <<step, isGenerating, history, persisted, activeHistoryItem, inflight, nextId>>

appVars == <<response, tripReport, appReport, historyVars>>

vars ==
    <<user, data, startTime, startHour, startMinute, riskAnalysis, warnings,
      turnaround, packWeight, ulScore, whatIfVars, appVars>>

inputVars == <<user, data, startTime, startHour, startMinute>>

\* The derived values of the report's main view other than the risk analysis
\* and the warning chips.
derivedVars == <<turnaround, packWeight, ulScore>>

-----------------------------------------------------------------------------
(* Strings *)

\* String.prototype.toLowerCase on one character (the letters the samples use).
LowerChar(c) ==
    CASE c = "A" -> "a" [] c = "B" -> "b" [] c = "C" -> "c" [] c = "D" -> "d"
      [] c = "E" -> "e" [] c = "F" -> "f" [] c = "G" -> "g" [] c = "H" -> "h"
      [] c = "I" -> "i" [] c = "J" -> "j" [] c = "K" -> "k" [] c = "L" -> "l"
      [] c = "M" -> "m" [] c = "N" -> "n" [] c = "O" -> "o" [] c = "P" -> "p"
      [] c = "Q" -> "q" [] c = "R" -> "r" [] c = "S" -> "s" [] c = "T" -> "t"
      [] c = "U" -> "u" [] c = "V" -> "v" [] c = "W" -> "w" [] c = "X" -> "x"
      [] c = "Y" -> "y" [] c = "Z" -> "z"
      [] OTHER -> c

toLowerCase(s) == [i \in 1..Len(s) |-> LowerChar(s[i])]

\* String.prototype.includes: sub occurs in s as a contiguous run of characters.
includes(s, sub) ==
    \E i \in 1..(Len(s) - Len(sub) + 1) : SubSeq(s, i, i + Len(sub) - 1) = sub

\* The index of the first ":" of s, or Len(s) + 1 when there is none.
FirstColon(s) ==
    IF \E i \in 1..Len(s) : s[i] = ":"
    THEN CHOOSE i \in 1..Len(s) : s[i] = ":" /\ \A j \in 1..(i - 1) : s[j] # ":"
    ELSE Len(s) + 1

\* s.split(':')[0]
SplitColon0(s) == SubSeq(s, 1, FirstColon(s) - 1)

Digits == {"0", "1", "2", "3", "4", "5", "6", "7", "8", "9"}

DigitValue(c) ==
    CASE c = "0" -> 0 [] c = "1" -> 1 [] c = "2" -> 2 [] c = "3" -> 3
      [] c = "4" -> 4 [] c = "5" -> 5 [] c = "6" -> 6 [] c = "7" -> 7
      [] c = "8" -> 8 [] c = "9" -> 9

DigitChar(d) ==
    CASE d = 0 -> "0" [] d = 1 -> "1" [] d = 2 -> "2" [] d = 3 -> "3"
      [] d = 4 -> "4" [] d = 5 -> "5" [] d = 6 -> "6" [] d = 7 -> "7"
      [] d = 8 -> "8" [] d = 9 -> "9"

\* The length of the longest prefix of s made of decimal digits.
DigitPrefixLen(s) ==
    IF \A i \in 1..Len(s) : s[i] \in Digits
    THEN Len(s)
    ELSE (CHOOSE i \in 1..Len(s) :
              s[i] \notin Digits /\ \A j \in 1..(i - 1) : s[j] \in Digits) - 1

RECURSIVE DecimalValue(_)
DecimalValue(ds) ==
    IF ds = << >> THEN 0
    ELSE 10 * DecimalValue(SubSeq(ds, 1, Len(ds) - 1)) + DigitValue(ds[Len(ds)])

\* parseInt(s, 10) for a string without sign or leading blanks: the value of
\* the leading digits, NaN when there are none.  A number is the record
\* [nan, value]; NaN is [nan |-> TRUE, value |-> 0].
parseInt(s) ==
    LET n == DigitPrefixLen(s)
    IN  IF n = 0 THEN [nan |-> TRUE, value |-> 0]
        ELSE [nan |-> FALSE, value |-> DecimalValue(SubSeq(s, 1, n))]

\* x >= k where x may be NaN: every comparison with NaN is false.
NumGe(x, k) == ~x.nan /\ x.value >= k

\* n.toString().padStart(2, '0') for 0 <= n <= 99
padStart2(n) ==
    IF n < 10 THEN <<"0", DigitChar(n)>>
    ELSE <<DigitChar(n \div 10), DigitChar(n % 10)>>

\* The value of the <input type="time"> field: "HH:MM", or "" when empty.
TimeFieldValue(h, m) ==
    IF h < 0 THEN << >> ELSE padStart2(h) \o <<":">> \o padStart2(m)

-----------------------------------------------------------------------------
(* Numbers *)

\* n kilometres in the unit of data.distanceKm (tenths of a kilometre).
Km(n) == 10 * n

\* Math.max and Math.min of two numbers.
MathMax(a, b) == IF a >= b THEN a ELSE b
MathMin(a, b) == IF a <= b THEN a ELSE b

\* x * 1.5, exact for the even x it is applied to.
Times1_5(x) == (3 * x) \div 2

-----------------------------------------------------------------------------
(* calculateRiskAnalysis *)

Keyword_storm    == <<"s", "t", "o", "r", "m">>
Keyword_thunder  == <<"t", "h", "u", "n", "d", "e", "r">>
Keyword_snow     == <<"s", "n", "o", "w">>
Keyword_blizzard == <<"b", "l", "i", "z", "z", "a", "r", "d">>
Keyword_rain     == <<"r", "a", "i", "n">>
Keyword_wind     == <<"w", "i", "n", "d">>
Keyword_fog      == <<"f", "o", "g">>

\* let score = 0; const factors = []
NoFactors == [score |-> 0, factors |-> << >>]

\* add with "score = points" in place of "score += points".
add_AssignsScore(acc, name, points, desc) ==
    IF points > 0
    THEN [score   |-> points,
          factors |-> Append(acc.factors,
                             [name |-> name, score |-> points, description |-> desc])]
    ELSE acc

\* The helper add(name, points, desc): acc is the pair (score, factors).
add(acc, name, points, desc) ==
    IF points > 0
    THEN [score   |-> acc.score + points,
          factors |-> Append(acc.factors,
                             [name |-> name, score |-> points, description |-> desc])]
    ELSE acc

\* 1. Distance vs Experience
distLimit(u) ==
    IF u.experience = "Advanced" THEN 20
    ELSE IF u.experience = "Intermediate" THEN 12
    ELSE 5

\* DistanceRule with ">=" in place of ">" at 1.5 x distLimit.
DistanceRule_GeBoundary(acc, u, d) ==
    IF d.distanceKm >= Times1_5(Km(distLimit(u)))
    THEN add(acc, "Distance", 2,
             <<"Significantly longer than recommended for ", u.experience, " level.">>)
    ELSE IF d.distanceKm > Km(distLimit(u))
    THEN add(acc, "Distance", 1,
             <<"At the upper end of comfort range for ", u.experience, ".">>)
    ELSE acc

DistanceRule(acc, u, d) ==
    IF d.distanceKm > Times1_5(Km(distLimit(u)))
    THEN add(acc, "Distance", 2,
             <<"Significantly longer than recommended for ", u.experience, " level.">>)
    ELSE IF d.distanceKm > Km(distLimit(u))
    THEN add(acc, "Distance", 1,
             <<"At the upper end of comfort range for ", u.experience, ".">>)
    ELSE acc

\* elevLimit read from the experience level in place of the fitness level.
elevLimit_ByExperience(u) ==
    IF u.experience = "Advanced" THEN 1500
    ELSE IF u.experience = "Intermediate" THEN 800
    ELSE 300

\* elevLimit with the limits of low and high fitness exchanged.
elevLimit_Reversed(u) ==
    IF u.fitness = "high" THEN 300
    ELSE IF u.fitness = "medium" THEN 800
    ELSE 1500

\* 2. Elevation vs Fitness
elevLimit(u) ==
    IF u.fitness = "high" THEN 1500
    ELSE IF u.fitness = "medium" THEN 800
    ELSE 300

ElevationRule(acc, u, d) ==
    IF d.elevationM > Times1_5(elevLimit(u))
    THEN add(acc, "Elevation", 2, <<"Very steep climb for current fitness level.">>)
    ELSE IF d.elevationM > elevLimit(u)
    THEN add(acc, "Elevation", 1, <<"Significant elevation gain.">>)
    ELSE acc

\* TimingRule with "hour > 14" in place of "hour >= 14".
TimingRule_After14(acc, d, st) ==
    LET hour == parseInt(SplitColon0(st))
    IN  IF NumGe(hour, 15)
        THEN IF d.distanceKm > Km(5)
             THEN add(acc, "Timing", 2, <<"Late start creates risk of hiking in the dark.">>)
             ELSE add(acc, "Timing", 1, <<"Late start; watch sunset times.">>)
        ELSE acc

\* 3. Time of Day (Start Time)
TimingRule(acc, d, st) ==
    LET hour == parseInt(SplitColon0(st))
    IN  IF NumGe(hour, 14)
        THEN IF d.distanceKm > Km(5)
             THEN add(acc, "Timing", 2, <<"Late start creates risk of hiking in the dark.">>)
             ELSE add(acc, "Timing", 1, <<"Late start; watch sunset times.">>)
        ELSE acc

\* WeatherRule with the two branches in the other order (rain|wind|fog first).
WeatherRule_MildFirst(acc, d) ==
    LET weather == toLowerCase(d.weatherCondition)
    IN  IF \/ includes(weather, Keyword_rain)
           \/ includes(weather, Keyword_wind)
           \/ includes(weather, Keyword_fog)
        THEN add(acc, "Weather", 1,
                 <<"Weather may make trail slippery or reduce visibility.">>)
        ELSE IF \/ includes(weather, Keyword_storm)
                \/ includes(weather, Keyword_thunder)
                \/ includes(weather, Keyword_snow)
                \/ includes(weather, Keyword_blizzard)
        THEN add(acc, "Weather", 2, <<"Hazardous weather conditions reported.">>)
        ELSE acc

\* 4. Weather Conditions (heuristics based on keywords)
WeatherRule(acc, d) ==
    LET weather == toLowerCase(d.weatherCondition)
    IN  IF \/ includes(weather, Keyword_storm)
           \/ includes(weather, Keyword_thunder)
           \/ includes(weather, Keyword_snow)
           \/ includes(weather, Keyword_blizzard)
        THEN add(acc, "Weather", 2, <<"Hazardous weather conditions reported.">>)
        ELSE IF \/ includes(weather, Keyword_rain)
                \/ includes(weather, Keyword_wind)
                \/ includes(weather, Keyword_fog)
        THEN add(acc, "Weather", 1,
                 <<"Weather may make trail slippery or reduce visibility.">>)
        ELSE acc

\* TemperatureRule with the freezing branch tested before the heat branches
\* and "<= 0" in place of "< 0".
TemperatureRule_FreezingAtZero(acc, d) ==
    LET weather == toLowerCase(d.weatherCondition)
        temp    == d.tempC
    IN  IF temp <= 0
        THEN add(acc, "Temperature", 2, <<"Freezing conditions. Hypothermia risk.">>)
        ELSE IF temp > 30
        THEN add(acc, "Temperature", 2, <<"Extreme heat risk. Dehydration danger.">>)
        ELSE IF temp > 27
        THEN add(acc, "Temperature", 1, <<"Hot conditions. Extra water required.">>)
        ELSE IF temp < 10 /\ (\/ includes(weather, Keyword_rain)
                              \/ includes(weather, Keyword_wind))
        THEN add(acc, "Temperature", 1, <<"Cold and wet/windy. Hypothermia risk.">>)
        ELSE acc

TemperatureRule(acc, d) ==
    LET weather == toLowerCase(d.weatherCondition)
        temp    == d.tempC
    IN  IF temp > 30
        THEN add(acc, "Temperature", 2, <<"Extreme heat risk. Dehydration danger.">>)
        ELSE IF temp > 27
        THEN add(acc, "Temperature", 1, <<"Hot conditions. Extra water required.">>)
        ELSE IF temp < 0
        THEN add(acc, "Temperature", 2, <<"Freezing conditions. Hypothermia risk.">>)
        ELSE IF temp < 10 /\ (\/ includes(weather, Keyword_rain)
                              \/ includes(weather, Keyword_wind))
        THEN add(acc, "Temperature", 1, <<"Cold and wet/windy. Hypothermia risk.">>)
        ELSE acc

\* UncertaintyRule with "&&" in place of "||".
UncertaintyRule_BothMissing(acc, d) ==
    IF d.distanceKm = 0 /\ d.elevationM = 0
    THEN add(acc, "Uncertainty", 1, <<"Missing key trail data increases risk.">>)
    ELSE acc

\* The penalty applied to every trip.
UncertaintyRule_Always(acc, d) ==
    add(acc, "Uncertainty", 1, <<"Missing key trail data increases risk.">>)

\* 5. Missing Data Penalty
UncertaintyRule(acc, d) ==
    IF d.distanceKm = 0 \/ d.elevationM = 0
    THEN add(acc, "Uncertainty", 1, <<"Missing key trail data increases risk.">>)
    ELSE acc

\* DetermineLevel with "score > 7" in place of "score >= 7".
DetermineLevel_Above7(score) ==
    IF score > 7 THEN [level |-> "High", color |-> "bg-red-600"]
    ELSE IF score >= 5 THEN [level |-> "Elevated", color |-> "bg-orange-500"]
    ELSE IF score >= 3 THEN [level |-> "Moderate", color |-> "bg-amber-400"]
    ELSE [level |-> "Low", color |-> "bg-forest-500"]

\* Determine Level
DetermineLevel(score) ==
    IF score >= 7 THEN [level |-> "High", color |-> "bg-red-600"]
    ELSE IF score >= 5 THEN [level |-> "Elevated", color |-> "bg-orange-500"]
    ELSE IF score >= 3 THEN [level |-> "Moderate", color |-> "bg-amber-400"]
    ELSE [level |-> "Low", color |-> "bg-forest-500"]

\* calculateRiskAnalysis with the weather block moved above the timing block.
calculateRiskAnalysis_WeatherFirst(u, d, st) ==
    LET a1 == DistanceRule(NoFactors, u, d)
        a2 == ElevationRule(a1, u, d)
        a3 == WeatherRule(a2, d)
        a4 == TimingRule(a3, d, st)
        a5 == TemperatureRule(a4, d)
        a6 == UncertaintyRule(a5, d)
        lc == DetermineLevel(a6.score)
    IN  [level |-> lc.level, score |-> a6.score, factors |-> a6.factors,
         color |-> lc.color]

calculateRiskAnalysis(u, d, st) ==
    LET a1 == DistanceRule(NoFactors, u, d)
        a2 == ElevationRule(a1, u, d)
        a3 == TimingRule(a2, d, st)
        a4 == WeatherRule(a3, d)
        a5 == TemperatureRule(a4, d)
        a6 == UncertaintyRule(a5, d)
        lc == DetermineLevel(a6.score)
    IN  [level |-> lc.level, score |-> a6.score, factors |-> a6.factors,
         color |-> lc.color]

-----------------------------------------------------------------------------
(* generateWarnings *)

\* HeatChips with "> 30" in place of ">= 30".
HeatChips_Above30(d) ==
    IF d.tempC > 30
    THEN <<[type |-> "Heat", label |-> "Extreme Heat", severity |-> "red"]>>
    ELSE IF d.tempC >= 27
    THEN <<[type |-> "Heat", label |-> "High Heat", severity |-> "orange"]>>
    ELSE << >>

HeatChips(d) ==
    IF d.tempC >= 30
    THEN <<[type |-> "Heat", label |-> "Extreme Heat", severity |-> "red"]>>
    ELSE IF d.tempC >= 27
    THEN <<[type |-> "Heat", label |-> "High Heat", severity |-> "orange"]>>
    ELSE << >>

ColdChips(d) ==
    IF d.tempC <= 0
    THEN <<[type |-> "Cold", label |-> "Freezing", severity |-> "red"]>>
    ELSE << >>

\* StormChips that looks for "storm" only.
StormChips_StormOnly(d) ==
    LET weather == toLowerCase(d.weatherCondition)
    IN  IF includes(weather, Keyword_storm)
        THEN <<[type |-> "Storm", label |-> "Storm Risk", severity |-> "red"]>>
        ELSE << >>

StormChips(d) ==
    LET weather == toLowerCase(d.weatherCondition)
    IN  IF includes(weather, Keyword_storm) \/ includes(weather, Keyword_thunder)
        THEN <<[type |-> "Storm", label |-> "Storm Risk", severity |-> "red"]>>
        ELSE << >>

LateChips(d, st) ==
    LET startHourParsed == parseInt(SplitColon0(st))
    IN  IF NumGe(startHourParsed, 14) /\ d.distanceKm > Km(5)
        THEN <<[type |-> "Late", label |-> "Late Start", severity |-> "orange"]>>
        ELSE << >>

\* SteepChips without the "distanceKm > 0" guard: elevationM / 0 is Infinity
\* for a positive elevationM (and NaN for 0 / 0), and Infinity > 60.
SteepChips_NoGuard(d) ==
    IF \/ (d.distanceKm = 0 /\ d.elevationM > 0)
       \/ (d.distanceKm > 0 /\ d.elevationM * 10 > 60 * d.distanceKm)
    THEN <<[type |-> "Steep", label |-> "Steep Sections", severity |-> "yellow"]>>
    ELSE << >>

\* elevationM / distanceKm > 60  <=>  elevationM * 10 > 60 * (distanceKm in tenths),
\* the divisor being positive.
SteepChips(d) ==
    IF d.distanceKm > 0 /\ d.elevationM * 10 > 60 * d.distanceKm
    THEN <<[type |-> "Steep", label |-> "Steep Sections", severity |-> "yellow"]>>
    ELSE << >>

generateWarnings(d, st) ==
    HeatChips(d) \o ColdChips(d) \o StormChips(d) \o LateChips(d, st) \o SteepChips(d)

-----------------------------------------------------------------------------
(* calculateTurnaroundTime *)

\* s.split(':')[1]: the text between the first and the second ":".  Without a
\* ":" the element is undefined, which parseInt reads as the text "undefined".
SplitColon1(s) ==
    IF FirstColon(s) > Len(s)
    THEN <<"u", "n", "d", "e", "f", "i", "n", "e", "d">>
    ELSE SplitColon0(SubSeq(s, FirstColon(s) + 1, Len(s)))

\* n.toString() for 0 <= n <= 99
NumberToString(n) ==
    IF n < 10 THEN <<DigitChar(n)>>
    ELSE <<DigitChar(n \div 10), DigitChar(n % 10)>>

\* NaN.toString(); padStart(2, '0') leaves these three characters alone.
NaNText == <<"N", "a", "N">>

\* let speed = 4; 'low' -> 3; 'high' -> 5  (km/h)
baseSpeed(fitness) ==
    IF fitness = "high" THEN 5 ELSE IF fitness = "low" THEN 3 ELSE 4

\* adjustedSpeed with the floor at half a kilometre per hour.
adjustedSpeed_FloorAtHalf(d, fitness) ==
    MathMax(500, 1000 * baseSpeed(fitness) - d.elevationM)

\* speed = Math.max(1, speed - (elevationM / 500) * 0.5), in metres per hour:
\* (elevationM / 500) * 0.5 km/h is elevationM metres per hour.
adjustedSpeed(d, fitness) ==
    MathMax(1000, 1000 * baseSpeed(fitness) - d.elevationM)

\* halfDurationMinutes = ((distanceKm / speed) * 1.1 * 60) / 2
\*                     = 3300 * (distance in tenths of a km) / (speed in m/h);
\* the whole minutes of that quotient.
halfDurationWholeMinutes(d, fitness) ==
    (3300 * d.distanceKm) \div adjustedSpeed(d, fitness)

\* The code computes in IEEE-754 doubles, and 1.1 is not a double.  Where the
\* half duration is a whole number of minutes, the double that the code
\* obtains for turnAroundMinutes can lie just under that whole number, and
\* Math.floor then yields one minute less.  These are the sample inputs
\* <<distanceKm (tenths), elevationM, fitness, startTotalMinutes>> for which
\* it does (e.g. 1.2 km, 2800 m, medium, 00:00: 32.99999999999999).
TruncatedBelowMinute ==
    {<<12, 2800, "medium", 0>>, <<12, 2800, "medium", 30>>,
     <<368, 2800, "medium", 0>>, <<368, 2800, "medium", 30>>,
     <<368, 2800, "medium", 59>>, <<368, 2800, "medium", 540>>,
     <<368, 2800, "medium", 570>>, <<368, 2800, "medium", 599>>}

\* Math.floor(turnAroundMinutes), turnAroundMinutes = startTotalMinutes +
\* halfDurationMinutes, as the doubles of the code give it.
floorTurnAroundMinutes(d, startTotalMinutes, fitness) ==
    startTotalMinutes + halfDurationWholeMinutes(d, fitness)
      - (IF <<d.distanceKm, d.elevationM, fitness, startTotalMinutes>>
                \in TruncatedBelowMinute
         THEN 1 ELSE 0)

calculateTurnaroundTime(d, st, fitness) ==
    LET startHourParsed == parseInt(SplitColon0(st))
        startMinParsed == parseInt(SplitColon1(st))
    IN  IF startHourParsed.nan \/ startMinParsed.nan
        THEN NaNText \o <<":">> \o NaNText
        ELSE LET startTotalMinutes ==
                     startHourParsed.value * 60 + startMinParsed.value
                 t == floorTurnAroundMinutes(d, startTotalMinutes, fitness)
                 h == (t \div 60) % 24
                 m == t % 60
             IN  NumberToString(h) \o <<":">> \o padStart2(m)

-----------------------------------------------------------------------------
(* estimatePackWeight *)
(* Weights inside estimatePackWeight are held in units of 1/400 kg (2.5 g),  *)
(* in which base, water, food and layers are whole numbers for a distance    *)
(* given in tenths of a kilometre; the returned weight is in tenths of a kg. *)

\* let base = 3.5
baseKg == 1400

\* waterL with the hot-weather factor from 25 C on.
waterL_HotFrom25(d) ==
    IF d.tempC >= 25 THEN 6 * d.distanceKm ELSE 4 * d.distanceKm

\* waterL = (distanceKm / 5) * 0.5, times 1.5 if tempC > 25
waterL(d) ==
    IF d.tempC > 25 THEN 6 * d.distanceKm ELSE 4 * d.distanceKm

\* foodKg = (distanceKm / 20) * 0.5
foodKg(d) == d.distanceKm

\* layersKg starting from 0 in place of 0.5.
layersKg_NoBaseLayer(d) ==
    (IF d.tempC < 10 THEN 400 ELSE 0)
        + (IF includes(toLowerCase(d.weatherCondition), Keyword_rain)
           THEN 200 ELSE 0)

\* layersKg = 0.5, + 1.0 if tempC < 10, + 0.5 if the weather contains 'rain'
layersKg(d) ==
    200 + (IF d.tempC < 10 THEN 400 ELSE 0)
        + (IF includes(toLowerCase(d.weatherCondition), Keyword_rain)
           THEN 200 ELSE 0)

\* The sum is a double, and toFixed(1) rounds the double.  Where the sum of
\* the four terms lies exactly halfway between two tenths (x.x5), the double
\* lies on one side of it.  These are the sample terms <<waterL, foodKg,
\* layersKg>> whose double lies below (e.g. 0.4 km, mild, dry: the double of
\* 4.05 is 4.04999..., toFixed(1) gives "4.0"); the other halfway sums of the
\* samples round up.
HalfwayRoundedDown ==
    {<<16, 4, 200>>, <<16, 4, 400>>, <<16, 4, 600>>, <<16, 4, 800>>,
     <<120, 20, 200>>, <<120, 20, 400>>}

\* parseFloat((base + waterL + foodKg + layersKg).toFixed(1)), in tenths of a kg
estimatePackWeight(d) ==
    LET sum == baseKg + waterL(d) + foodKg(d) + layersKg(d)
    IN  IF <<waterL(d), foodKg(d), layersKg(d)>> \in HalfwayRoundedDown
        THEN sum \div 40
        ELSE (sum + 20) \div 40

-----------------------------------------------------------------------------
(* calculateULScore: weight in tenths of a kilogram *)

\* calculateULScore with the first band closed at 4 kg.
calculateULScore_FourIsSuperUltralight(weight, d) ==
    IF weight <= 40 THEN 98
    ELSE IF weight < 60 THEN 85
    ELSE IF weight < 80 THEN 65
    ELSE IF weight < 100 THEN 45
    ELSE 30

calculateULScore(weight, d) ==
    IF weight < 40 THEN 98
    ELSE IF weight < 60 THEN 85
    ELSE IF weight < 80 THEN 65
    ELSE IF weight < 100 THEN 45
    ELSE 30

-----------------------------------------------------------------------------
(* Inputs *)

ExperienceLevels == {"Beginner", "Intermediate", "Advanced"}
FitnessLevels == {"low", "medium", "high"}

\* How far above a threshold of the code the sample just past it lies
\* (in tenths of a kilometre for distances, in metres for elevations).
SampleStep == 1

\* distanceKm samples, in tenths of a kilometre: 0, each threshold of the
\* code (distLimit and 1.5 x distLimit for the three experience levels) and
\* a value just above it.
DistanceSamples ==
    {0} \cup {t + s : t \in {50, 75, 120, 180, 200, 300}, s \in {0, SampleStep}}

\* elevationM samples: 0, each threshold of the code (elevLimit and
\* 1.5 x elevLimit for the three fitness levels) and a value just above it.
ElevationSamples ==
    {0} \cup {t + s : t \in {300, 450, 800, 1200, 1500, 2250}, s \in {0, SampleStep}}

\* tempC samples: both sides of 0, 10, 27 and 30, and the 32 of the scenario.
TempSamples == {-1, 0, 1, 9, 10, 27, 28, 30, 32}

Weather_Empty          == << >>
Weather_Clear          == <<"C", "l", "e", "a", "r">>
Weather_Thunderstorms  == <<"T", "h", "u", "n", "d", "e", "r", "s", "t", "o", "r", "m", "s">>
Weather_RainAndThunder ==
    <<"R", "a", "i", "n", " ", "a", "n", "d", " ", "T", "h", "u", "n", "d", "e", "r">>
Weather_LightRain      == <<"L", "i", "g", "h", "t", " ", "r", "a", "i", "n">>
Weather_HeavySnow      == <<"H", "e", "a", "v", "y", " ", "S", "n", "o", "w">>
Weather_BLIZZARD       == <<"B", "L", "I", "Z", "Z", "A", "R", "D">>
Weather_Windy          == <<"W", "i", "n", "d", "y">>
Weather_Fog            == <<"F", "o", "g">>
Weather_Storm          == <<"S", "t", "o", "r", "m">>

WeatherSamples ==
    { Weather_Empty, Weather_Clear, Weather_Thunderstorms, Weather_RainAndThunder,
      Weather_LightRain, Weather_HeavySnow, Weather_BLIZZARD, Weather_Windy,
      Weather_Fog, Weather_Storm }

\* Hours entered in the time field; -1 stands for the field left empty.
HourSamples == {-1, 9, 13, 14, 15, 23}

MinuteSamples == {0, 30}

TripSamples ==
    [distanceKm : DistanceSamples, elevationM : ElevationSamples,
     weatherCondition : WeatherSamples, tempC : TempSamples]

\* The profile the form starts with.
DefaultUserProfile == [experience |-> "Intermediate", fitness |-> "medium"]

\* Nothing of the main view has been derived yet.
NothingDerived == turnaround = << >> /\ packWeight = << >> /\ ulScore = << >>

\* The state of a ReportView before its first render: the initial values of
\* its useState hooks (lines 621-632), no report yet.
ReportViewInitial ==
    /\ report = 0
    /\ whatIfData = << >>
    /\ whatIfRisk = << >>
    /\ whatIfWarnings = << >>
    /\ whatIfULScore = 0
    /\ tempAdjust = 0
    /\ distAdjust = 0
    /\ timeAdjust = 0
    /\ weightAdjust = 0
    /\ weatherOverride = << >>
    /\ fitnessOverride = ""
    /\ rendered = << >>
    /\ pending = {}
    /\ hypo = << >>

\* App before anything was submitted, with nothing saved.
HistoryInitial ==
    /\ step = "form"
    /\ isGenerating = FALSE
    /\ history = << >>
    /\ persisted = << >>
    /\ activeHistoryItem = << >>
    /\ inflight = {}
    /\ nextId = 1

\* The provider has not been called and App shows no report.
AppInitial ==
    /\ response = [failed |-> FALSE, dataBlock |-> << >>]
    /\ tripReport = << >>
    /\ appReport = << >>
    /\ HistoryInitial

-----------------------------------------------------------------------------
(* The risk accumulator: Init draws (user, trip, startTime), the action      *)
(* applies calculateRiskAnalysis to them.                                    *)

Init ==
    /\ user \in [experience : ExperienceLevels, fitness : FitnessLevels]
    /\ data \in TripSamples
    /\ startHour \in HourSamples
    /\ startMinute = 0
    /\ startTime = TimeFieldValue(startHour, startMinute)
    /\ riskAnalysis = << >>
    /\ warnings = << >>
    /\ NothingDerived
    /\ ReportViewInitial
    /\ AppInitial

CalculateRiskAnalysis ==
    /\ riskAnalysis = << >>
    /\ riskAnalysis' = <<calculateRiskAnalysis(user, data, startTime)>>
    /\ UNCHANGED <<inputVars, warnings, derivedVars, whatIfVars>>
    /\ UNCHANGED appVars

Next == CalculateRiskAnalysis

Spec == Init /\ [][Next]_vars

-----------------------------------------------------------------------------
(* The warning chips: Init draws (trip, startTime), the action applies       *)
(* generateWarnings to them.  The profile is not an input of generateWarnings.*)

InitWarnings ==
    /\ user = DefaultUserProfile
    /\ data \in TripSamples
    /\ startHour \in HourSamples
    /\ startMinute \in MinuteSamples
    /\ startTime = TimeFieldValue(startHour, startMinute)
    /\ riskAnalysis = << >>
    /\ warnings = << >>
    /\ NothingDerived
    /\ ReportViewInitial
    /\ AppInitial

GenerateWarnings ==
    /\ warnings = << >>
    /\ warnings' = <<generateWarnings(data, startTime)>>
    /\ UNCHANGED <<inputVars, riskAnalysis, derivedVars, whatIfVars>>
    /\ UNCHANGED appVars

NextWarnings == GenerateWarnings

SpecWarnings == InitWarnings /\ [][NextWarnings]_vars

\* The report screen shows the risk analysis and the warning chips of the same
\* trip: both functions run, in either order, on one input.
ReportTripSamples ==
    {d \in TripSamples :
        /\ d.distanceKm \in {0, 50, 120 + SampleStep, 300}
        /\ d.elevationM \in {0, 300, 800 + SampleStep, 2250}
        /\ d.tempC \in {0, 10, 28, 32}}

InitReport ==
    /\ user \in [experience : ExperienceLevels, fitness : FitnessLevels]
    /\ data \in ReportTripSamples
    /\ startHour \in {-1, 9, 15}
    /\ startMinute = 0
    /\ startTime = TimeFieldValue(startHour, startMinute)
    /\ riskAnalysis = << >>
    /\ warnings = << >>
    /\ NothingDerived
    /\ ReportViewInitial
    /\ AppInitial

NextReport == CalculateRiskAnalysis \/ GenerateWarnings

SpecReport == InitReport /\ [][NextReport]_vars

-----------------------------------------------------------------------------
(* The turnaround time: Init draws (trip, startTime, fitness), the action    *)
(* applies calculateTurnaroundTime to them as the report view does.          *)

\* Distances of 0, 1, 1.2, 5, 30 and 36.8 km; climbs up to 10000 m.
TurnaroundTripSamples ==
    [distanceKm : {0, 10, 12, 50, 300, 368},
     elevationM : {0, 500, 2800, 3000, 10000},
     weatherCondition : {Weather_Clear},
     tempC : {20}]

InitTurnaround ==
    /\ user \in [experience : {"Intermediate"}, fitness : FitnessLevels]
    /\ data \in TurnaroundTripSamples
    /\ startHour \in {-1, 0, 9, 23}
    /\ startMinute \in {0, 30, 59}
    /\ startTime = TimeFieldValue(startHour, startMinute)
    /\ riskAnalysis = << >>
    /\ warnings = << >>
    /\ NothingDerived
    /\ ReportViewInitial
    /\ AppInitial

CalculateTurnaroundTime ==
    /\ turnaround = << >>
    /\ turnaround' = <<calculateTurnaroundTime(data, startTime, user.fitness)>>
    /\ UNCHANGED <<inputVars, riskAnalysis, warnings, packWeight, ulScore, whatIfVars>>
    /\ UNCHANGED appVars

NextTurnaround == CalculateTurnaroundTime

SpecTurnaround == InitTurnaround /\ [][NextTurnaround]_vars

-----------------------------------------------------------------------------
(* The pack weight: Init draws a trip, the action applies estimatePackWeight *)
(* to it as the report view does.                                            *)

Weather_RainyWet == <<"R", "a", "i", "n", "y", " ", "W", "e", "t">>

\* Distances of 0, 0.4, 1.2, 2, 5, 10, 15.6 and 30 km; temperatures on both
\* sides of 10 and 25.
PackTripSamples ==
    [distanceKm : {0, 4, 12, 20, 50, 100, 156, 300},
     elevationM : {0, 1200},
     weatherCondition :
         {Weather_Clear, Weather_LightRain, Weather_RainAndThunder,
          Weather_RainyWet, Weather_Thunderstorms},
     tempC : {9, 10, 20, 25, 26, 32}]

InitPackWeight ==
    /\ user = DefaultUserProfile
    /\ data \in PackTripSamples
    /\ startHour = 9
    /\ startMinute = 0
    /\ startTime = TimeFieldValue(startHour, startMinute)
    /\ riskAnalysis = << >>
    /\ warnings = << >>
    /\ NothingDerived
    /\ ReportViewInitial
    /\ AppInitial

EstimatePackWeight ==
    /\ packWeight = << >>
    /\ packWeight' = <<estimatePackWeight(data)>>
    /\ UNCHANGED <<inputVars, riskAnalysis, warnings, turnaround, ulScore, whatIfVars>>
    /\ UNCHANGED appVars

NextPackWeight == EstimatePackWeight

SpecPackWeight == InitPackWeight /\ [][NextPackWeight]_vars

-----------------------------------------------------------------------------
(* The ultralight score: Init draws a weight and a trip, the action applies  *)
(* calculateULScore to them.  The report view hands it the estimated pack    *)
(* weight, the What-If panel that weight plus the weight adjustment, floored *)
(* at 1 kg.                                                                  *)

\* Weights from 1 kg to 25 kg, around each band boundary.
WeightSamples == {10, 39, 40, 41, 59, 60, 61, 79, 80, 81, 99, 100, 101, 250}

ULTripSamples ==
    {d \in PackTripSamples :
        /\ d.distanceKm \in {0, 100}
        /\ d.tempC \in {9, 32}
        /\ d.weatherCondition \in {Weather_Clear, Weather_RainyWet}}

InitULScore ==
    /\ user = DefaultUserProfile
    /\ data \in ULTripSamples
    /\ startHour = 9
    /\ startMinute = 0
    /\ startTime = TimeFieldValue(startHour, startMinute)
    /\ riskAnalysis = << >>
    /\ warnings = << >>
    /\ turnaround = << >>
    /\ packWeight \in {<<w>> : w \in WeightSamples}
    /\ ulScore = << >>
    /\ ReportViewInitial
    /\ AppInitial

CalculateULScore ==
    /\ packWeight # << >>
    /\ ulScore = << >>
    /\ ulScore' = <<calculateULScore(packWeight[1], data)>>
    /\ UNCHANGED <<inputVars, riskAnalysis, warnings, turnaround, packWeight, whatIfVars>>
    /\ UNCHANGED appVars

NextULScore == CalculateULScore

SpecULScore == InitULScore /\ [][NextULScore]_vars

-----------------------------------------------------------------------------
(* ReportView and its What-If panel.  The component is mounted with no      *)
(* report; the application then delivers reports (handleSubmit, and          *)
(* handleFollowUp replacing the report in place), the user moves the What-If *)
(* controls, and React renders the component and runs the effects of each    *)
(* render with the props and state that render closed over.  React runs the  *)
(* effects of a render before it handles the next event.                     *)

Weather_ThunderStorm ==
    <<"T", "h", "u", "n", "d", "e", "r", " ", "S", "t", "o", "r", "m">>

\* The reports the provider can deliver, as their report.data.
WhatIfTripSamples ==
    {[distanceKm |-> Km(12), elevationM |-> 1200,
      weatherCondition |-> Weather_Thunderstorms, tempC |-> 28],
     [distanceKm |-> Km(5), elevationM |-> 300,
      weatherCondition |-> Weather_LightRain, tempC |-> 9],
     [distanceKm |-> 0, elevationM |-> 0,
      weatherCondition |-> Weather_Clear, tempC |-> 20]}

\* The positions of the sliders that are sampled: the neutral position and
\* the ends of the range (temperature -10..10, distance -5..10, time -4..8,
\* weight -5..15).
TempAdjustSamples == {-10, 0, 10}
DistAdjustSamples == {-5, 0, 10}
TimeAdjustSamples == {0, 8}
WeightAdjustSamples == {-5, 0, 15}
\* The weather buttons sampled ('' is "Original") and the fitness buttons.
WeatherOverrideSamples == {<< >>, Weather_ThunderStorm}
FitnessOverrideSamples == {"low", "high"}

\* The number of reports delivered to one mounted ReportView.
MaxReports == 2

\* report.data before any report has arrived (report is null).
NoTrip ==
    [distanceKm |-> 0, elevationM |-> 0, weatherCondition |-> << >>, tempC |-> 0]

\* The props and state a render closes over.
Closure ==
    [report |-> report, data |-> data, userProfile |-> user,
     startTime |-> startTime, whatIfData |-> whatIfData,
     tempAdjust |-> tempAdjust, distAdjust |-> distAdjust,
     timeAdjust |-> timeAdjust, weightAdjust |-> weightAdjust,
     weatherOverride |-> weatherOverride, fitnessOverride |-> fitnessOverride]

\* The dependency list without weightAdjust.
RecomputeDeps_WithoutWeight(c) ==
    <<c.tempAdjust, c.distAdjust, c.timeAdjust, c.weatherOverride,
      c.fitnessOverride, c.report, c.userProfile, c.whatIfData>>

\* The dependency list of the recompute effect (line 686).
RecomputeDeps(c) ==
    <<c.tempAdjust, c.distAdjust, c.timeAdjust, c.weatherOverride,
      c.weightAdjust, c.fitnessOverride, c.report, c.userProfile, c.whatIfData>>

\* hypoData = {...whatIfData, tempC, distanceKm, weatherCondition}
hypoData(c) ==
    [c.whatIfData[1].data EXCEPT
        !.tempC = c.data.tempC + c.tempAdjust,
        !.distanceKm = MathMax(Km(1), c.data.distanceKm + Km(c.distAdjust)),
        !.weatherCondition =
            IF c.weatherOverride # << >> THEN c.weatherOverride
            ELSE c.data.weatherCondition]

\* baseHour = 9; newHour = Math.min(23, Math.max(0, baseHour + timeAdjust))
newHour(c) == MathMin(23, MathMax(0, 9 + c.timeAdjust))

hypoStartTime(c) == padStart2(newHour(c)) \o <<":", "0", "0">>

\* hypoWeight = Math.max(1, estimatedBase + weightAdjust), in tenths of a kg
hypoWeight(c) ==
    MathMax(10, estimatePackWeight(hypoData(c)) + 10 * c.weightAdjust)

hypoUser(c) ==
    [c.userProfile EXCEPT
        !.fitness = IF c.fitnessOverride # "" THEN c.fitnessOverride
                    ELSE c.userProfile.fitness]

\* calculateRiskAnalysis takes three parameters: the fourth argument of the
\* call, hypoWeight, is dropped.
newRisk(c) == calculateRiskAnalysis(hypoUser(c), hypoData(c), hypoStartTime(c))
\* The chips computed for the hike's own start time.
newWarnings_CanonicalStartTime(c) == generateWarnings(hypoData(c), c.startTime)
newWarnings(c) == generateWarnings(hypoData(c), hypoStartTime(c))
newScore(c) == calculateULScore(hypoWeight(c), hypoData(c))

InitWhatIf ==
    /\ user \in {DefaultUserProfile, [experience |-> "Beginner", fitness |-> "low"]}
    /\ data = NoTrip
    /\ startHour \in {9, 15}
    /\ startMinute = 0
    /\ startTime = TimeFieldValue(startHour, startMinute)
    /\ riskAnalysis = << >>
    /\ warnings = << >>
    /\ NothingDerived
    /\ ReportViewInitial
    /\ AppInitial

\* Nothing is left to render or to run.
Settled == pending = {} /\ rendered = <<Closure>>

\* App: setReport(result); setRiskAnalysis(risk) with
\* risk = calculateRiskAnalysis(userProfile, result.data, hikeDetails.startTime)
ReportArrives ==
    /\ Settled
    /\ report < MaxReports
    /\ \E d \in WhatIfTripSamples :
           /\ data' = d
           /\ riskAnalysis' = <<calculateRiskAnalysis(user, d, startTime)>>
    /\ report' = report + 1
    /\ UNCHANGED <<user, startTime, startHour, startMinute, warnings,
                   derivedVars, whatIfData, adjustVars, whatIfResultVars,
                   rendered, pending>>
    /\ UNCHANGED appVars

\* The render: the main view's derived values (lines 713-719) and the effects
\* whose dependencies differ from those of the previous render.
Render ==
    /\ pending = {}
    /\ rendered # <<Closure>>
    /\ rendered' = <<Closure>>
    /\ pending' =
           IF rendered = << >> THEN {"reset", "recompute"}
           ELSE (IF rendered[1].report # report THEN {"reset"} ELSE {})
                \cup (IF RecomputeDeps(rendered[1]) # RecomputeDeps(Closure)
                      THEN {"recompute"} ELSE {})
    /\ IF report = 0
       THEN UNCHANGED <<warnings, derivedVars>>
       ELSE /\ packWeight' = <<estimatePackWeight(data)>>
            /\ ulScore' = <<calculateULScore(estimatePackWeight(data), data)>>
            /\ turnaround' = <<calculateTurnaroundTime(data, startTime, user.fitness)>>
            /\ warnings' = <<generateWarnings(data, startTime)>>
    /\ UNCHANGED <<inputVars, riskAnalysis, report, whatIfData, adjustVars,
                   whatIfResultVars>>
    /\ UNCHANGED appVars

\* A reset effect that leaves the temperature slider where it stands.
ResetEffect_KeepsTemp ==
    /\ "reset" \in pending
    /\ pending' = pending \ {"reset"}
    /\ LET c == rendered[1]
       IN  IF c.report # 0
           THEN /\ whatIfData' = <<[report |-> c.report, data |-> c.data]>>
                /\ distAdjust' = 0
                /\ timeAdjust' = 0
                /\ weatherOverride' = << >>
                /\ weightAdjust' = 0
                /\ fitnessOverride' = ""
                /\ UNCHANGED tempAdjust
           ELSE UNCHANGED <<whatIfData, adjustVars>>
    /\ UNCHANGED <<inputVars, riskAnalysis, warnings, derivedVars, report,
                   whatIfResultVars, rendered>>
    /\ UNCHANGED appVars

\* useEffect(..., [report]) (lines 640-653)
ResetEffect ==
    /\ "reset" \in pending
    /\ pending' = pending \ {"reset"}
    /\ LET c == rendered[1]
       IN  IF c.report # 0
           THEN /\ whatIfData' = <<[report |-> c.report, data |-> c.data]>>
                /\ tempAdjust' = 0
                /\ distAdjust' = 0
                /\ timeAdjust' = 0
                /\ weatherOverride' = << >>
                /\ weightAdjust' = 0
                /\ fitnessOverride' = ""
           ELSE UNCHANGED <<whatIfData, adjustVars>>
    /\ UNCHANGED <<inputVars, riskAnalysis, warnings, derivedVars, report,
                   whatIfResultVars, rendered>>
    /\ UNCHANGED appVars

\* A recompute effect that stores the hypothetical trip as the report's data.
RecomputeEffect_WritesBack ==
    /\ pending = {"recompute"}
    /\ pending' = {}
    /\ LET c == rendered[1]
       IN  IF c.report = 0 \/ c.whatIfData = << >>
           THEN UNCHANGED <<whatIfResultVars, data>>
           ELSE /\ whatIfRisk' = <<newRisk(c)>>
                /\ whatIfWarnings' = newWarnings(c)
                /\ whatIfULScore' = newScore(c)
                /\ hypo' = <<[userProfile |-> hypoUser(c), data |-> hypoData(c),
                              startTime |-> hypoStartTime(c),
                              weight |-> hypoWeight(c), closure |-> c]>>
                /\ data' = hypoData(c)
    /\ UNCHANGED <<user, startTime, startHour, startMinute, riskAnalysis,
                   warnings, derivedVars, report, whatIfData, adjustVars,
                   rendered>>
    /\ UNCHANGED appVars

\* useEffect(..., [tempAdjust, ..., report, userProfile, whatIfData])
\* (lines 656-686); it runs after the reset effect of the same render.
RecomputeEffect ==
    /\ pending = {"recompute"}
    /\ pending' = {}
    /\ LET c == rendered[1]
       IN  IF c.report = 0 \/ c.whatIfData = << >>
           THEN UNCHANGED whatIfResultVars
           ELSE /\ whatIfRisk' = <<newRisk(c)>>
                /\ whatIfWarnings' = newWarnings(c)
                /\ whatIfULScore' = newScore(c)
                /\ hypo' = <<[userProfile |-> hypoUser(c), data |-> hypoData(c),
                              startTime |-> hypoStartTime(c),
                              weight |-> hypoWeight(c), closure |-> c]>>
    /\ UNCHANGED <<inputVars, riskAnalysis, warnings, derivedVars, report,
                   whatIfData, adjustVars, rendered>>
    /\ UNCHANGED appVars

\* The controls of the What-If panel, shown once a report is displayed.
MoveTempSlider ==
    /\ Settled /\ report # 0
    /\ \E v \in TempAdjustSamples \ {tempAdjust} : tempAdjust' = v
    /\ UNCHANGED <<inputVars, riskAnalysis, warnings, derivedVars, report,
                   whatIfData, distAdjust, timeAdjust, weightAdjust,
                   weatherOverride, fitnessOverride, whatIfResultVars,
                   rendered, pending>>
    /\ UNCHANGED appVars

MoveDistSlider ==
    /\ Settled /\ report # 0
    /\ \E v \in DistAdjustSamples \ {distAdjust} : distAdjust' = v
    /\ UNCHANGED <<inputVars, riskAnalysis, warnings, derivedVars, report,
                   whatIfData, tempAdjust, timeAdjust, weightAdjust,
                   weatherOverride, fitnessOverride, whatIfResultVars,
                   rendered, pending>>
    /\ UNCHANGED appVars

MoveTimeSlider ==
    /\ Settled /\ report # 0
    /\ \E v \in TimeAdjustSamples \ {timeAdjust} : timeAdjust' = v
    /\ UNCHANGED <<inputVars, riskAnalysis, warnings, derivedVars, report,
                   whatIfData, tempAdjust, distAdjust, weightAdjust,
                   weatherOverride, fitnessOverride, whatIfResultVars,
                   rendered, pending>>
    /\ UNCHANGED appVars

MoveWeightSlider ==
    /\ Settled /\ report # 0
    /\ \E v \in WeightAdjustSamples \ {weightAdjust} : weightAdjust' = v
    /\ UNCHANGED <<inputVars, riskAnalysis, warnings, derivedVars, report,
                   whatIfData, tempAdjust, distAdjust, timeAdjust,
                   weatherOverride, fitnessOverride, whatIfResultVars,
                   rendered, pending>>
    /\ UNCHANGED appVars

PickWeather ==
    /\ Settled /\ report # 0
    /\ \E v \in WeatherOverrideSamples \ {weatherOverride} : weatherOverride' = v
    /\ UNCHANGED <<inputVars, riskAnalysis, warnings, derivedVars, report,
                   whatIfData, tempAdjust, distAdjust, timeAdjust, weightAdjust,
                   fitnessOverride, whatIfResultVars, rendered, pending>>
    /\ UNCHANGED appVars

PickFitness ==
    /\ Settled /\ report # 0
    /\ \E v \in FitnessOverrideSamples \ {fitnessOverride} : fitnessOverride' = v
    /\ UNCHANGED <<inputVars, riskAnalysis, warnings, derivedVars, report,
                   whatIfData, tempAdjust, distAdjust, timeAdjust, weightAdjust,
                   weatherOverride, whatIfResultVars, rendered, pending>>
    /\ UNCHANGED appVars

NextWhatIf ==
    \/ ReportArrives
    \/ Render
    \/ ResetEffect
    \/ RecomputeEffect
    \/ MoveTempSlider
    \/ MoveDistSlider
    \/ MoveTimeSlider
    \/ MoveWeightSlider
    \/ PickWeather
    \/ PickFitness

SpecWhatIf == InitWhatIf /\ [][NextWhatIf]_vars

-----------------------------------------------------------------------------
(* The report provider: generateTripReport and parseTripReport                *)
(* (src/unnamed/part_003).  The provider's text is its ---DATA--- block, a    *)
(* sequence of lines, or no block at all.                                     *)

\* String.prototype.trim for strings whose only white space is the blank.
trim(s) ==
    IF \A i \in 1..Len(s) : s[i] = " " THEN << >>
    ELSE LET first == CHOOSE i \in 1..Len(s) :
                          s[i] # " " /\ \A j \in 1..(i - 1) : s[j] = " "
             last  == CHOOSE i \in 1..Len(s) :
                          s[i] # " " /\ \A j \in (i + 1)..Len(s) : s[j] = " "
         IN  SubSeq(s, first, last)

\* line.split(':').length
SplitColonLength(s) == Cardinality({i \in 1..Len(s) : s[i] = ":"}) + 1

\* parseFloat(s): leading blanks, an optional sign, digits, an optional
\* fraction; NaN when no digit is found.  The value is in tenths and takes
\* the first digit of the fraction, which is exact for the literals with at
\* most one fractional digit (and no exponent) that the samples use.
parseFloat(s) ==
    LET t        == IF \A i \in 1..Len(s) : s[i] = " " THEN << >>
                    ELSE SubSeq(s, CHOOSE i \in 1..Len(s) :
                                       s[i] # " " /\ \A j \in 1..(i - 1) : s[j] = " ",
                                Len(s))
        signed   == t # << >> /\ t[1] \in {"+", "-"}
        sign     == IF t # << >> /\ t[1] = "-" THEN -1 ELSE 1
        body     == IF signed THEN Tail(t) ELSE t
        n        == DigitPrefixLen(body)
        rest     == SubSeq(body, n + 1, Len(body))
        fraction == IF rest # << >> /\ rest[1] = "."
                    THEN SubSeq(Tail(rest), 1, DigitPrefixLen(Tail(rest)))
                    ELSE << >>
    IN  IF n = 0 /\ fraction = << >> THEN [nan |-> TRUE, value |-> 0]
        ELSE [nan |-> FALSE,
              value |-> sign * (10 * DecimalValue(SubSeq(body, 1, n))
                                + (IF fraction = << >> THEN 0
                                   ELSE DigitValue(fraction[1])))]

\* x || fallback for a number x: NaN and 0 are falsy.
OrElse(x, fallback) == IF x.nan \/ x.value = 0 THEN fallback ELSE x.value

\* A value in tenths as a whole number of metres or degrees, the unit of
\* data.elevationM and data.tempC (the samples carry whole numbers there).
Whole(tenths) == tenths \div 10

Key_Distance_KM ==
    <<"D", "i", "s", "t", "a", "n", "c", "e", "_", "K", "M">>
Key_Elevation_M ==
    <<"E", "l", "e", "v", "a", "t", "i", "o", "n", "_", "M">>
Key_Weather_Condition ==
    <<"W", "e", "a", "t", "h", "e", "r", "_", "C", "o", "n", "d", "i", "t", "i", "o", "n">>
Key_Temp_C == <<"T", "e", "m", "p", "_", "C">>

Weather_Unknown == <<"U", "n", "k", "n", "o", "w", "n">>

\* The defaults of parseTripReport with a distance of 1 km.
DefaultTripData_OneKm ==
    [distanceKm |-> Km(1), elevationM |-> 0,
     weatherCondition |-> Weather_Unknown, tempC |-> 20]

\* const data: TripData = { distanceKm: 0, elevationM: 0, ... } (lines 88-95)
DefaultTripData ==
    [distanceKm |-> 0, elevationM |-> 0,
     weatherCondition |-> Weather_Unknown, tempC |-> 20]

\* The body of lines.forEach for one line of the DATA block (lines 130-139).
ParseDataLine(d, line) ==
    IF SplitColonLength(line) # 2 THEN d
    ELSE LET key == trim(SplitColon0(line))
             val == trim(SubSeq(line, FirstColon(line) + 1, Len(line)))
         IN  CASE key = Key_Distance_KM ->
                      [d EXCEPT !.distanceKm = OrElse(parseFloat(val), 0)]
               [] key = Key_Elevation_M ->
                      [d EXCEPT !.elevationM = Whole(OrElse(parseFloat(val), 0))]
               [] key = Key_Weather_Condition ->
                      [d EXCEPT !.weatherCondition = val]
               [] key = Key_Temp_C ->
                      [d EXCEPT !.tempC = Whole(OrElse(parseFloat(val), 200))]
               [] OTHER -> d

RECURSIVE ParseDataLines(_, _)
ParseDataLines(d, lines) ==
    IF lines = << >> THEN d
    ELSE ParseDataLines(ParseDataLine(d, lines[1]), Tail(lines))

\* parseTripReport(text, sources).data: the defaults, overwritten line by line
\* when the text has a DATA block.
parseTripReport(dataBlock) ==
    IF dataBlock = << >> THEN DefaultTripData
    ELSE ParseDataLines(DefaultTripData, dataBlock[1])

\* The data of the report built in the catch block (line 311).
ErrorTripData ==
    [distanceKm |-> 0, elevationM |-> 0,
     weatherCondition |-> Weather_Unknown, tempC |-> 20]

\* generateTripReport: the call and the parsing sit in one try block whose
\* catch returns a report, so the promise always resolves.
generateTripReport(r) ==
    IF r.failed THEN ErrorTripData ELSE parseTripReport(r.dataBlock)

\* "key: value"
DataLine(key, val) == key \o <<":", " ">> \o val

\* 'Sunset_Time: 18:45' splits into three parts and is skipped.
SunsetLine ==
    DataLine(<<"S", "u", "n", "s", "e", "t", "_", "T", "i", "m", "e">>,
             <<"1", "8", ":", "4", "5">>)

\* The DATA blocks sampled: the lines in the order of the prompt (lines
\* 239-249) with the distances 0, 0.5, 7 and 12.5, the elevations 0, 800 and
\* 1200 or no elevation line, and the temperatures 0, 20, 24, 35, -5 and -12;
\* and a block whose distance line lacks its colon.
DataBlockSamples ==
    { <<DataLine(Key_Distance_KM, dl)>> \o el
        \o <<DataLine(Key_Weather_Condition, w), DataLine(Key_Temp_C, tl), SunsetLine>> :
        dl \in {<<"0">>, <<"0", ".", "5">>, <<"7">>, <<"1", "2", ".", "5">>},
        el \in {<<DataLine(Key_Elevation_M, x)>> :
                   x \in {<<"0">>, <<"8", "0", "0">>, <<"1", "2", "0", "0">>}}
               \cup {<< >>},
        w \in {Weather_Clear, Weather_LightRain},
        tl \in {<<"0">>, <<"2", "0">>, <<"2", "4">>, <<"3", "5">>, <<"-", "5">>,
                <<"-", "1", "2">>} }
    \cup { <<Key_Distance_KM \o <<" ", "1", "2">>, SunsetLine>> }

\* What the provider call can come to: an exception, a text without a DATA
\* block, a text with one.
ResponseSamples ==
    {[failed |-> TRUE, dataBlock |-> << >>], [failed |-> FALSE, dataBlock |-> << >>]}
    \cup {[failed |-> FALSE, dataBlock |-> <<b>>] : b \in DataBlockSamples}

InitProvider ==
    /\ user \in {DefaultUserProfile, [experience |-> "Beginner", fitness |-> "low"]}
    /\ data = NoTrip
    /\ startHour \in {9, 15}
    /\ startMinute = 0
    /\ startTime = TimeFieldValue(startHour, startMinute)
    /\ riskAnalysis = << >>
    /\ warnings = << >>
    /\ NothingDerived
    /\ ReportViewInitial
    /\ response \in ResponseSamples
    /\ tripReport = << >>
    /\ appReport = << >>
    /\ HistoryInitial

\* const result = await generateTripReport(userProfile, hikeDetails, ...)
GenerateTripReport ==
    /\ tripReport = << >>
    /\ tripReport' = <<[data |-> generateTripReport(response)]>>
    /\ UNCHANGED <<inputVars, riskAnalysis, warnings, derivedVars, whatIfVars,
                   response, appReport, historyVars>>

\* handleSubmit after the await (part_000 lines 141-145): the risk analysis of
\* result.data, then setReport(result) and setRiskAnalysis(risk).
HandleSubmitResult ==
    /\ tripReport # << >>
    /\ appReport = << >>
    /\ riskAnalysis' =
           <<calculateRiskAnalysis(user, tripReport[1].data, startTime)>>
    /\ appReport' = tripReport
    /\ data' = tripReport[1].data
    /\ UNCHANGED <<user, startTime, startHour, startMinute, warnings,
                   derivedVars, whatIfVars, response, tripReport, historyVars>>

NextProvider ==
    \/ GenerateTripReport
    \/ HandleSubmitResult

SpecProvider == InitProvider /\ [][NextProvider]_vars

-----------------------------------------------------------------------------
(* App's history (src/unnamed/part_000): the handlers that start a report     *)
(* generation, the completion of a generation, and the history sidebar.       *)
(* A TripReport is [id, data], id standing for the identity of the object.    *)

\* .slice(0, 20) // Keep last 20
HistoryLimit == 20

\* The number of report generations started in one run.
MaxRequests == 2

\* The trip the provider reports on; reports differ by their identity.
HistoryTripSamples ==
    {[distanceKm |-> Km(12), elevationM |-> 1200,
      weatherCondition |-> Weather_Thunderstorms, tempC |-> 28]}

\* The item saveToHistory builds for report r (lines 73-81); userProfile and
\* hikeDetails are those of the state, which no action of this
\* specification changes.
HistoryItemOf(r, risk) == [id |-> r.id, report |-> r, riskAnalysis |-> risk]

\* The history a previous session left in localStorage: n items, newest
\* first, with the ids 1..n (n <= HistoryLimit; this session hands out the
\* ids from HistoryLimit + 1 on).
SavedHistory(n) ==
    [i \in 1..n |->
        LET r == [id |-> n + 1 - i,
                  data |-> CHOOSE d \in HistoryTripSamples : TRUE]
        IN  HistoryItemOf(r, calculateRiskAnalysis(DefaultUserProfile, r.data,
                                                   TimeFieldValue(9, 0)))]

\* const updatedHistory = [newItem, ...history].slice(0, 20) (line 83)
updatedHistory(item, h) ==
    SubSeq(<<item>> \o h, 1, MathMin(HistoryLimit, Len(h) + 1))

\* history.filter(h => h.id !== id) (line 90)
filterOut(h, id) == SelectSeq(h, LAMBDA x : x.id # id)

\* App after mounting: the effect of lines 61-70 has loaded the saved history.
InitHistory ==
    /\ user = DefaultUserProfile
    /\ data = NoTrip
    /\ startHour = 9
    /\ startMinute = 0
    /\ startTime = TimeFieldValue(startHour, startMinute)
    /\ riskAnalysis = << >>
    /\ warnings = << >>
    /\ NothingDerived
    /\ ReportViewInitial
    /\ response = [failed |-> FALSE, dataBlock |-> << >>]
    /\ tripReport = << >>
    /\ appReport = << >>
    /\ step = "form"
    /\ isGenerating = FALSE
    /\ \E n \in {0, HistoryLimit} :
           /\ persisted = SavedHistory(n)
           /\ history = persisted
    /\ nextId = HistoryLimit + 1
    /\ activeHistoryItem = << >>
    /\ inflight = {}

\* The state no action of SpecHistory changes.
historyFrame ==
    <<user, startTime, startHour, startMinute, warnings, derivedVars,
      whatIfVars, response, tripReport>>

\* A handler awaits generateTripReport: its closure holds the history of the
\* render that created it.
Awaiting(kind) == [id |-> nextId, kind |-> kind, history |-> history]

\* handleSubmit up to its await (lines 124-138); the submit button is
\* disabled while a report is being generated.
HandleSubmit ==
    /\ step = "form"
    /\ ~isGenerating
    /\ nextId <= HistoryLimit + MaxRequests
    /\ step' = "report"
    /\ appReport' = << >>
    /\ data' = NoTrip
    /\ riskAnalysis' = << >>
    /\ activeHistoryItem' = << >>
    /\ isGenerating' = TRUE
    /\ inflight' = inflight \cup {Awaiting("submit")}
    /\ nextId' = nextId + 1
    /\ UNCHANGED <<history, persisted, historyFrame>>

\* handleReRunHistory up to its await (lines 151-166); its button belongs to
\* the banner of a displayed history item.
HandleReRunHistory ==
    /\ step = "report"
    /\ appReport # << >>
    /\ activeHistoryItem # << >>
    /\ nextId <= HistoryLimit + MaxRequests
    /\ step' = "report"
    /\ appReport' = << >>
    /\ data' = NoTrip
    /\ riskAnalysis' = << >>
    /\ activeHistoryItem' = << >>
    /\ isGenerating' = TRUE
    /\ inflight' = inflight \cup {Awaiting("rerun")}
    /\ nextId' = nextId + 1
    /\ UNCHANGED <<history, persisted, historyFrame>>

\* handleFollowUp up to its await (lines 176-188)
HandleFollowUp ==
    /\ step = "report"
    /\ appReport # << >>
    /\ nextId <= HistoryLimit + MaxRequests
    /\ isGenerating' = TRUE
    /\ inflight' = inflight \cup {Awaiting("followup")}
    /\ nextId' = nextId + 1
    /\ UNCHANGED <<step, appReport, data, riskAnalysis, activeHistoryItem,
                   history, persisted, historyFrame>>

\* The provider answers one of the waiting handlers, which runs to its end:
\* the risk analysis, setReport, setRiskAnalysis and, except in
\* handleFollowUp, saveToHistory with the history of the handler's closure
\* (lines 141-148, 167-171, 191-195, 72-86).
ProviderResolves ==
    \E r \in inflight, d \in HistoryTripSamples :
        LET result == [id |-> r.id, data |-> d]
            risk   == calculateRiskAnalysis(user, d, startTime)
        IN  /\ inflight' = inflight \ {r}
            /\ appReport' = <<result>>
            /\ data' = d
            /\ riskAnalysis' = <<risk>>
            /\ isGenerating' = FALSE
            /\ IF r.kind = "followup"
               THEN UNCHANGED <<history, persisted>>
               ELSE /\ history' = updatedHistory(HistoryItemOf(result, risk), r.history)
                    /\ persisted' = history'
            /\ UNCHANGED <<step, activeHistoryItem, nextId, historyFrame>>

\* The position of the sidebar the user clicks on: the newest item.
ClickSamples == {1} \cap (1..Len(history))

\* deleteHistoryItem (lines 88-93)
DeleteHistoryItem ==
    \E i \in ClickSamples :
        /\ history' = filterOut(history, history[i].id)
        /\ persisted' = history'
        /\ UNCHANGED <<step, isGenerating, appReport, data, riskAnalysis,
                       activeHistoryItem, inflight, nextId, historyFrame>>

\* loadHistoryItem (lines 95-104)
LoadHistoryItem ==
    \E i \in ClickSamples :
        /\ activeHistoryItem # <<history[i]>>
        /\ appReport' = <<history[i].report>>
        /\ data' = history[i].report.data
        /\ riskAnalysis' = <<history[i].riskAnalysis>>
        /\ activeHistoryItem' = <<history[i]>>
        /\ step' = "report"
        /\ UNCHANGED <<isGenerating, history, persisted, inflight, nextId,
                       historyFrame>>

\* The "Back to Plan" button of the report step
BackToPlan ==
    /\ step = "report"
    /\ step' = "form"
    /\ appReport' = << >>
    /\ data' = NoTrip
    /\ riskAnalysis' = << >>
    /\ activeHistoryItem' = << >>
    /\ UNCHANGED <<isGenerating, history, persisted, inflight, nextId,
                   historyFrame>>

NextHistory ==
    \/ HandleSubmit
    \/ HandleReRunHistory
    \/ HandleFollowUp
    \/ ProviderResolves
    \/ DeleteHistoryItem
    \/ LoadHistoryItem
    \/ BackToPlan

SpecHistory == InitHistory /\ [][NextHistory]_vars

-----------------------------------------------------------------------------
(* Properties of calculateRiskAnalysis, checked under Spec *)

\* The RiskAnalysis of a state in which calculateRiskAnalysis has run.
Ran == riskAnalysis # << >>
Result == riskAnalysis[1]

\* The scores of the factors named name, in the order they were recorded.
ScoresOf(r, name) ==
    LET fs == SelectSeq(r.factors, LAMBDA f : f.name = name)
    IN  [i \in 1..Len(fs) |-> fs[i].score]

\* A rule that contributes n points records one factor of n, or nothing for 0.
Points(n) == IF n = 0 THEN << >> ELSE <<n>>

RECURSIVE SumOfScores(_)
SumOfScores(fs) ==
    IF fs = << >> THEN 0 ELSE fs[1].score + SumOfScores(Tail(fs))

NameAndScore(fs) == [i \in 1..Len(fs) |-> <<fs[i].name, fs[i].score>>]

\* What each weather sample contains, read off the sample by hand.
HazardousSamples ==
    {Weather_Thunderstorms, Weather_RainAndThunder, Weather_HeavySnow,
     Weather_BLIZZARD, Weather_Storm}
MildSamples == {Weather_LightRain, Weather_Windy, Weather_Fog}
RainOrWindSamples == {Weather_RainAndThunder, Weather_LightRain, Weather_Windy}

\* The lower-cased weather condition contains the keyword.
Mentions(d, keyword) == includes(toLowerCase(d.weatherCondition), keyword)

LevelColor(level) ==
    CASE level = "Low" -> "bg-forest-500"
      [] level = "Moderate" -> "bg-amber-400"
      [] level = "Elevated" -> "bg-orange-500"
      [] level = "High" -> "bg-red-600"

\* C1: the level is Low iff score < 3, Moderate iff 3 <= score < 5, Elevated
\* iff 5 <= score < 7, High iff score >= 7, and the color token is a fixed
\* function of the level.
C1_LevelIsStepFunctionOfScore ==
    Ran =>
        /\ Result.level \in {"Low", "Moderate", "Elevated", "High"}
        /\ (Result.level = "Low") <=> (Result.score < 3)
        /\ (Result.level = "Moderate") <=> (3 <= Result.score /\ Result.score < 5)
        /\ (Result.level = "Elevated") <=> (5 <= Result.score /\ Result.score < 7)
        /\ (Result.level = "High") <=> (Result.score >= 7)
        /\ Result.color = LevelColor(Result.level)

\* A result on the boundary 7: the lowest score that is High.
C1_Witness == Ran /\ Result.score = 7 /\ Result.level = "High"

\* The scenario of the specification: Intermediate/medium, 18 km, 1200 m,
\* "Thunderstorms", 32 C, start 15:00.
ScenarioInput ==
    /\ user = [experience |-> "Intermediate", fitness |-> "medium"]
    /\ data.distanceKm = Km(18)
    /\ data.elevationM = 1200
    /\ data.weatherCondition = Weather_Thunderstorms
    /\ data.tempC = 32
    /\ startHour = 15 /\ startMinute = 0

\* C2: the score is the sum of the scores of the recorded factors, every
\* recorded factor scores 1 or 2, and the scenario yields Distance +1,
\* Elevation +1, Timing +2, Weather +2, Temperature +2 = 8, level High.
C2_ScoreIsSumOfFactors ==
    Ran =>
        /\ Result.score = SumOfScores(Result.factors)
        /\ \A i \in 1..Len(Result.factors) : Result.factors[i].score \in {1, 2}
        /\ ScenarioInput =>
               /\ NameAndScore(Result.factors) =
                      << <<"Distance", 1>>, <<"Elevation", 1>>, <<"Timing", 2>>,
                         <<"Weather", 2>>, <<"Temperature", 2>> >>
               /\ Result.score = 8
               /\ Result.level = "High"

C2_Witness == Ran /\ ScenarioInput /\ Result.score = 8

FactorRank(name) ==
    CASE name = "Distance" -> 1
      [] name = "Elevation" -> 2
      [] name = "Timing" -> 3
      [] name = "Weather" -> 4
      [] name = "Temperature" -> 5
      [] name = "Uncertainty" -> 6
      [] OTHER -> 0

\* C3: the factor names form a subsequence of (Distance, Elevation, Timing,
\* Weather, Temperature, Uncertainty): fixed relative order, no name twice.
C3_FactorsInEvaluationOrder ==
    Ran =>
        /\ \A i \in 1..Len(Result.factors) : FactorRank(Result.factors[i].name) > 0
        /\ \A i, j \in 1..Len(Result.factors) :
               i < j => FactorRank(Result.factors[i].name)
                            < FactorRank(Result.factors[j].name)

\* Five factors at once, Timing and Weather among them, Uncertainty last.
C3_Witness ==
    /\ Ran
    /\ Len(Result.factors) = 5
    /\ ScoresOf(Result, "Timing") # << >>
    /\ ScoresOf(Result, "Weather") # << >>
    /\ Result.factors[5].name = "Uncertainty"

\* distLimit in km, by experience, as the specification tabulates it.
DistLimitKm(experience) ==
    CASE experience = "Beginner" -> 5
      [] experience = "Intermediate" -> 12
      [] experience = "Advanced" -> 20

\* The points of the Distance rule; distanceKm is in tenths of a kilometre,
\* so distanceKm > 1.5 x limit reads 2 * distanceKm > 3 * (10 * limit).
DistancePoints(experience, distanceKm) ==
    IF 2 * distanceKm > 3 * 10 * DistLimitKm(experience) THEN 2
    ELSE IF distanceKm > 10 * DistLimitKm(experience) THEN 1
    ELSE 0

\* C4: a Distance factor of +2 iff distanceKm > 1.5 x distLimit, of +1 iff
\* distLimit < distanceKm <= 1.5 x distLimit, none iff distanceKm <= distLimit;
\* exactly 1.5 x distLimit scores +1 and exactly distLimit scores nothing.
C4_DistanceFactor ==
    Ran =>
        /\ ScoresOf(Result, "Distance")
               = Points(DistancePoints(user.experience, data.distanceKm))
        /\ data.distanceKm = 15 * DistLimitKm(user.experience)
               => ScoresOf(Result, "Distance") = <<1>>
        /\ data.distanceKm = 10 * DistLimitKm(user.experience)
               => ScoresOf(Result, "Distance") = << >>

\* 18 km for Intermediate: exactly 1.5 x 12 km, scored +1.
C4_Witness ==
    /\ Ran
    /\ user.experience = "Intermediate"
    /\ data.distanceKm = 180
    /\ ScoresOf(Result, "Distance") = <<1>>

ElevLimitM(fitness) ==
    CASE fitness = "low" -> 300
      [] fitness = "medium" -> 800
      [] fitness = "high" -> 1500

ElevationPoints(fitness, elevationM) ==
    IF 2 * elevationM > 3 * ElevLimitM(fitness) THEN 2
    ELSE IF elevationM > ElevLimitM(fitness) THEN 1
    ELSE 0

\* C5: an Elevation factor of +2 iff elevationM > 1.5 x elevLimit, of +1 iff
\* elevLimit < elevationM <= 1.5 x elevLimit, none iff elevationM <= elevLimit,
\* with elevLimit read from the fitness alone and distLimit from the
\* experience alone (the formula holds for every pairing of the two).
C5_ElevationFactor ==
    Ran =>
        /\ ScoresOf(Result, "Elevation")
               = Points(ElevationPoints(user.fitness, data.elevationM))
        /\ \A e \in ExperienceLevels :
               user.experience = e =>
                   ScoresOf(Result, "Distance")
                       = Points(DistancePoints(e, data.distanceKm))

\* 1200 m at medium fitness scores +1 for an Advanced hiker, whose experience
\* tier does not match the fitness tier.
C5_Witness ==
    /\ Ran
    /\ user = [experience |-> "Advanced", fitness |-> "medium"]
    /\ data.elevationM = 1200
    /\ ScoresOf(Result, "Elevation") = <<1>>

\* C6: a Timing factor iff the start hour is >= 14; +2 when distanceKm > 5,
\* +1 when distanceKm <= 5; none for a start hour in 0..13.
C6_TimingFactor ==
    Ran =>
        /\ ScoresOf(Result, "Timing") =
               (IF startHour >= 14
                THEN (IF data.distanceKm > 50 THEN <<2>> ELSE <<1>>)
                ELSE << >>)
        /\ startHour \in 0..13 => ScoresOf(Result, "Timing") = << >>

\* Start at 14:00 with exactly 5 km: Timing +1.
C6_Witness ==
    /\ Ran
    /\ startHour = 14
    /\ data.distanceKm = 50
    /\ ScoresOf(Result, "Timing") = <<1>>

Hazardous(d) ==
    \/ Mentions(d, Keyword_storm) \/ Mentions(d, Keyword_thunder)
    \/ Mentions(d, Keyword_snow) \/ Mentions(d, Keyword_blizzard)

Mild(d) ==
    \/ Mentions(d, Keyword_rain) \/ Mentions(d, Keyword_wind)
    \/ Mentions(d, Keyword_fog)

\* C7: at most one Weather factor: +2 iff the lower-cased condition contains
\* storm, thunder, snow or blizzard; otherwise +1 iff it contains rain, wind
\* or fog; otherwise none.  "Rain and Thunder" scores +2 only, "" nothing.
C7_WeatherFactor ==
    Ran =>
        /\ ScoresOf(Result, "Weather") =
               (IF Hazardous(data) THEN <<2>>
                ELSE IF Mild(data) THEN <<1>>
                ELSE << >>)
        /\ ScoresOf(Result, "Weather") =
               (IF data.weatherCondition \in HazardousSamples THEN <<2>>
                ELSE IF data.weatherCondition \in MildSamples THEN <<1>>
                ELSE << >>)
        /\ data.weatherCondition = Weather_RainAndThunder
               => ScoresOf(Result, "Weather") = <<2>>
        /\ data.weatherCondition = Weather_Empty
               => ScoresOf(Result, "Weather") = << >>

C7_Witness ==
    /\ Ran
    /\ data.weatherCondition = Weather_RainAndThunder
    /\ ScoresOf(Result, "Weather") = <<2>>

\* The first matching branch of the temperature rule.
TemperaturePoints(tempC, rainOrWind) ==
    IF tempC > 30 THEN 2
    ELSE IF 27 < tempC /\ tempC <= 30 THEN 1
    ELSE IF tempC < 0 THEN 2
    ELSE IF tempC < 10 /\ rainOrWind THEN 1
    ELSE 0

\* C8: at most one Temperature factor, by the first matching branch of
\* tempC > 30: +2; 27 < tempC <= 30: +1; tempC < 0: +2; tempC < 10 with rain
\* or wind: +1; otherwise none.  30 gives +1, 27 nothing, 0 nothing unless
\* the weather contains rain or wind; whether a Weather factor fired does not
\* enter the decision.
C8_TemperatureFactor ==
    Ran =>
        /\ ScoresOf(Result, "Temperature") =
               Points(TemperaturePoints(data.tempC,
                          Mentions(data, Keyword_rain) \/ Mentions(data, Keyword_wind)))
        /\ ScoresOf(Result, "Temperature") =
               Points(TemperaturePoints(data.tempC,
                          data.weatherCondition \in RainOrWindSamples))
        /\ data.tempC = 30 => ScoresOf(Result, "Temperature") = <<1>>
        /\ data.tempC = 27 => ScoresOf(Result, "Temperature") = << >>
        /\ data.tempC = 0 =>
               ScoresOf(Result, "Temperature") =
                   (IF data.weatherCondition \in RainOrWindSamples
                    THEN <<1>> ELSE << >>)

\* 0 C in light rain: the Weather factor fired (+1) and so did the
\* cold-and-wet branch (+1), not the freezing branch.
C8_Witness ==
    /\ Ran
    /\ data.tempC = 0
    /\ data.weatherCondition = Weather_LightRain
    /\ ScoresOf(Result, "Weather") = <<1>>
    /\ ScoresOf(Result, "Temperature") = <<1>>

\* C9: the Uncertainty factor iff distanceKm = 0 or elevationM = 0, exactly
\* +1 even when both are 0; a zero-distance, zero-elevation trip that
\* triggers no other rule has score 1 and level Low.
C9_UncertaintyFactor ==
    Ran =>
        /\ ScoresOf(Result, "Uncertainty") =
               (IF data.distanceKm = 0 \/ data.elevationM = 0 THEN <<1>> ELSE << >>)
        /\ (/\ data.distanceKm = 0
            /\ data.elevationM = 0
            /\ \A i \in 1..Len(Result.factors) :
                   Result.factors[i].name = "Uncertainty")
               => Result.score = 1 /\ Result.level = "Low"

C9_Witness ==
    /\ Ran
    /\ data.distanceKm = 0
    /\ data.elevationM = 0
    /\ NameAndScore(Result.factors) = << <<"Uncertainty", 1>> >>
    /\ Result.score = 1

-----------------------------------------------------------------------------
(* Properties of generateWarnings, checked under SpecWarnings *)

Warned == warnings # << >>
Chips == warnings[1]

\* The severities of the chips of the given type, in order.
SeveritiesOf(chips, type) ==
    LET cs == SelectSeq(chips, LAMBDA c : c.type = type)
    IN  [i \in 1..Len(cs) |-> cs[i].severity]

\* C10: exactly one Heat chip, red, iff tempC >= 30; exactly one Heat chip,
\* orange, iff 27 <= tempC < 30; exactly one Cold chip, red, iff tempC <= 0;
\* neither for 0 < tempC < 27; never a Heat chip together with a Cold chip.
C10_TemperatureChips ==
    Warned =>
        /\ SeveritiesOf(Chips, "Heat") =
               (IF data.tempC >= 30 THEN <<"red">>
                ELSE IF data.tempC >= 27 THEN <<"orange">>
                ELSE << >>)
        /\ SeveritiesOf(Chips, "Cold") =
               (IF data.tempC <= 0 THEN <<"red">> ELSE << >>)
        /\ (0 < data.tempC /\ data.tempC < 27) =>
               SeveritiesOf(Chips, "Heat") \o SeveritiesOf(Chips, "Cold") = << >>
        /\ Len(SeveritiesOf(Chips, "Heat")) + Len(SeveritiesOf(Chips, "Cold")) <= 1

\* 30 C exactly: one red Heat chip and no Cold chip.
C10_Witness ==
    /\ Warned
    /\ data.tempC = 30
    /\ SeveritiesOf(Chips, "Heat") = <<"red">>
    /\ SeveritiesOf(Chips, "Cold") = << >>

\* The samples that contain "storm" or "thunder", read off by hand.
StormOrThunderSamples == {Weather_Thunderstorms, Weather_RainAndThunder, Weather_Storm}

-----------------------------------------------------------------------------
(* Risk level against warning chips, checked under SpecReport *)

\* C12: the level and the chips are not tied together.  A trip whose only
\* risk factor is storm or thunder weather scores 2 and is rated Low, while
\* the chips of the same trip hold a Storm chip of severity red.
C12_LowLevelWithRedStormChip ==
    (/\ Ran
     /\ Warned
     /\ Mentions(data, Keyword_storm) \/ Mentions(data, Keyword_thunder)
     /\ Len(Result.factors) = 1)
    => /\ NameAndScore(Result.factors) = <<<<"Weather", 2>>>>
       /\ Result.score = 2
       /\ Result.level = "Low"
       /\ SeveritiesOf(Chips, "Storm") = <<"red">>

\* "Rain and Thunder" on an easy trip: level Low, Storm chip red.
C12_Witness ==
    /\ Ran
    /\ Warned
    /\ data.weatherCondition = Weather_RainAndThunder
    /\ Result.level = "Low"
    /\ \E i \in 1..Len(Chips) : Chips[i].type = "Storm" /\ Chips[i].severity = "red"

-----------------------------------------------------------------------------
(* Properties of calculateTurnaroundTime, checked under SpecTurnaround *)

Turned == turnaround # << >>
TurnaroundText == turnaround[1]

\* The base speeds in metres per hour, by fitness.
BaseMetresPerHour(fitness) ==
    CASE fitness = "low" -> 3000 [] fitness = "medium" -> 4000
      [] fitness = "high" -> 5000

C14_TurnaroundIsStartPlusHalfDuration ==
    (Turned /\ startHour >= 0) =>
        LET minutes == startHour * 60 + startMinute
                         + halfDurationWholeMinutes(data, user.fitness)
            h == (minutes \div 60) % 24
            m == minutes % 60
        IN  /\ h \in 0..23
            /\ m \in 0..59
            /\ TurnaroundText = NumberToString(h) \o <<":">> \o padStart2(m)
            /\ data.distanceKm = 0 =>
                   TurnaroundText =
                       NumberToString(startHour) \o <<":">> \o padStart2(startMinute)

-----------------------------------------------------------------------------
(* Properties of estimatePackWeight, checked under SpecPackWeight *)

Packed == packWeight # << >>
PackWeightTenths == packWeight[1]

\* The weather samples that contain "rain", read off by hand.
RainSamples == {Weather_LightRain, Weather_RainAndThunder, Weather_RainyWet}

\* 3.5 + water + food + layers in half grams, for a distance in tenths of a
\* km: water is 100 g per km (150 g when tempC > 25), food 25 g per km.
ExactPackHalfGrams ==
    7000
    + (IF data.tempC > 25 THEN 30 * data.distanceKm ELSE 20 * data.distanceKm)
    + 5 * data.distanceKm
    + 1000
    + (IF data.tempC < 10 THEN 2000 ELSE 0)
    + (IF data.weatherCondition \in RainSamples THEN 1000 ELSE 0)

\* C15: the pack weight is 3.5 + water + food + layers rounded to one decimal,
\* i.e. a tenth of a kilogram nearest to that sum; the trip 0 km, 0 m, "Clear",
\* 20 C gives 4.0; elevationM has no effect on the result.
C15_PackWeightIsRoundedSum ==
    Packed =>
        /\ 200 * PackWeightTenths - 100 <= ExactPackHalfGrams
        /\ ExactPackHalfGrams <= 200 * PackWeightTenths + 100
        /\ (/\ data.distanceKm = 0
            /\ data.weatherCondition = Weather_Clear
            /\ data.tempC = 20) => PackWeightTenths = 40
        /\ \A e \in {0, 1200} :
               estimatePackWeight([data EXCEPT !.elevationM = e]) = PackWeightTenths

\* A hot, rainy 10 km trip with 1200 m of climb: 3.5 + 1.5 + 0.25 + 1.0 = 6.25,
\* returned as 6.3.
C15_Witness ==
    /\ Packed
    /\ data.distanceKm = Km(10)
    /\ data.elevationM = 1200
    /\ data.tempC = 26
    /\ data.weatherCondition = Weather_LightRain
    /\ PackWeightTenths = 63

-----------------------------------------------------------------------------
(* Properties of calculateULScore, checked under SpecULScore *)

Scored == ulScore # << >>
Weight == packWeight[1]
Score == ulScore[1]

\* C16: the score is 98 iff weight < 4, 85 iff 4 <= weight < 6, 65 iff
\* 6 <= weight < 8, 45 iff 8 <= weight < 10, 30 iff weight >= 10; it is one of
\* these five values, is the same for every trip, and never rises with the
\* weight; exactly 4.0 kg scores 85.
C16_ULScoreBands ==
    Scored =>
        /\ Score \in {98, 85, 65, 45, 30}
        /\ (Score = 98) <=> (Weight < 40)
        /\ (Score = 85) <=> (40 <= Weight /\ Weight < 60)
        /\ (Score = 65) <=> (60 <= Weight /\ Weight < 80)
        /\ (Score = 45) <=> (80 <= Weight /\ Weight < 100)
        /\ (Score = 30) <=> (Weight >= 100)
        /\ Weight = 40 => Score = 85
        /\ \A d \in ULTripSamples : calculateULScore(Weight, d) = Score
        /\ \A w \in WeightSamples :
               w >= Weight => calculateULScore(w, data) <= Score

\* Exactly 4.0 kg: the first weight that is no longer scored 98.
C16_Witness == Scored /\ Weight = 40 /\ Score = 85

-----------------------------------------------------------------------------
(* Properties of the What-If panel, checked under SpecWhatIf *)

\* The recompute effect has handed a hypothetical trip to the engine; Hypo is
\* what it handed over and Closed the props and state it was built from.
Recomputed == hypo # << >>
Hypo == hypo[1]
Closed == hypo[1].closure

\* C17: the hypothetical inputs handed to the risk engine are built from the
\* canonical report and the adjustments: distanceKm = max(1, canonical +
\* delta) >= 1, start hour within 0..23, tempC = canonical + delta, weather
\* and fitness the override when one is selected and the canonical value
\* otherwise, elevationM and experience the canonical ones.
C17_HypotheticalInputs ==
    Recomputed =>
        /\ Hypo.data.distanceKm =
               (IF Closed.data.distanceKm + Km(Closed.distAdjust) > Km(1)
                THEN Closed.data.distanceKm + Km(Closed.distAdjust) ELSE Km(1))
        /\ Hypo.data.distanceKm >= Km(1)
        /\ ~parseInt(SplitColon0(Hypo.startTime)).nan
        /\ parseInt(SplitColon0(Hypo.startTime)).value \in 0..23
        /\ Hypo.data.tempC = Closed.data.tempC + Closed.tempAdjust
        /\ Hypo.data.weatherCondition =
               (IF Closed.weatherOverride \in WeatherOverrideSamples \ {<< >>}
                THEN Closed.weatherOverride ELSE Closed.data.weatherCondition)
        /\ Hypo.userProfile.fitness =
               (IF Closed.fitnessOverride \in FitnessOverrideSamples
                THEN Closed.fitnessOverride ELSE Closed.userProfile.fitness)
        /\ Hypo.data.elevationM = Closed.data.elevationM
        /\ Hypo.userProfile.experience = Closed.userProfile.experience

\* The main view shows the current report: the latest render displayed it.
MainViewShown == report # 0 /\ rendered # << >> /\ rendered[1].report = report

\* C18: the What-If recomputation never touches the canonical values.  Every
\* step other than the arrival of a report leaves report.data, the profile and
\* the canonical riskAnalysis as they are, and once the main view shows the
\* report its warnings, pack weight, UL score and turnaround stay the same
\* through every adjustment, render and effect.
C18_CanonicalValuesUnchanged ==
    [][report' = report =>
          /\ UNCHANGED <<data, user, startTime, riskAnalysis>>
          /\ MainViewShown => UNCHANGED <<warnings, packWeight, ulScore, turnaround>>]_vars

\* A recomputation for +10 C on the 12 km report: the what-if risk differs
\* from the canonical one, which is still that of report.data.
C18_Witness ==
    /\ Settled
    /\ Recomputed
    /\ tempAdjust = 10
    /\ data.distanceKm = Km(12)
    /\ Hypo.data.tempC = data.tempC + 10
    /\ whatIfRisk # riskAnalysis
    /\ riskAnalysis = <<calculateRiskAnalysis(user, data, startTime)>>
    /\ packWeight = <<estimatePackWeight(data)>>

\* The closure of a ReportView that has just loaded the current report and
\* been given the current adjustments.
FreshClosure ==
    [Closure EXCEPT !.whatIfData = <<[report |-> report, data |-> data]>>]

\* C19: once the effects have run, the what-if results depend on the canonical
\* report data, the profile and the current adjustments only: they are the
\* results of applying the current adjustments to the freshly loaded report,
\* whatever adjustments came before, and evaluating the engine again on the
\* same hypothetical inputs gives the stored risk analysis.
C19_ResultsAreFunctionOfCurrentAdjustments ==
    (Settled /\ report # 0) =>
        /\ Recomputed
        /\ whatIfRisk = <<newRisk(FreshClosure)>>
        /\ whatIfWarnings = newWarnings(FreshClosure)
        /\ whatIfULScore = newScore(FreshClosure)
        /\ whatIfRisk =
               <<calculateRiskAnalysis(Hypo.userProfile, Hypo.data, Hypo.startTime)>>

\* The fitness button "high" has been pressed and every slider stands at
\* neutral: the results are those of the report with that one override.
C19_Witness ==
    /\ Settled
    /\ report = 1
    /\ tempAdjust = 0 /\ distAdjust = 0 /\ timeAdjust = 0 /\ weightAdjust = 0
    /\ weatherOverride = << >>
    /\ fitnessOverride = "high"
    /\ whatIfULScore = newScore(FreshClosure)
    /\ whatIfRisk = <<newRisk(FreshClosure)>>

\* C20: the stored what-if risk, warnings and UL score always come from one
\* hypothetical snapshot (trip, start time, weight, fitness), and once the
\* recompute effect has run for the current adjustments that snapshot is the
\* one built from the current values of all adjustments.
C20_OneSnapshot ==
    /\ Recomputed =>
           /\ whatIfRisk =
                  <<calculateRiskAnalysis(Hypo.userProfile, Hypo.data, Hypo.startTime)>>
           /\ whatIfWarnings = generateWarnings(Hypo.data, Hypo.startTime)
           /\ whatIfULScore = calculateULScore(Hypo.weight, Hypo.data)
    /\ (Settled /\ report # 0) =>
           /\ Recomputed
           /\ Closed = Closure
           /\ Hypo.data = hypoData(Closure)
           /\ Hypo.startTime = hypoStartTime(Closure)
           /\ Hypo.weight = hypoWeight(Closure)
           /\ Hypo.userProfile = hypoUser(Closure)

\* Every control away from neutral on a hike that starts at 15:00: the chips
\* hold the Late chip of the hypothetical 17:00 start.
C20_Witness ==
    /\ Settled
    /\ Recomputed
    /\ startHour = 15
    /\ tempAdjust = 10 /\ distAdjust = 10 /\ timeAdjust = 8 /\ weightAdjust = 15
    /\ weatherOverride = Weather_ThunderStorm
    /\ fitnessOverride = "low"
    /\ Hypo.startTime = <<"1", "7", ":", "0", "0">>
    /\ \E i \in 1..Len(whatIfWarnings) : whatIfWarnings[i].type = "Late"

\* Every What-If control stands at its neutral value.
Neutral ==
    /\ tempAdjust = 0 /\ distAdjust = 0 /\ timeAdjust = 0 /\ weightAdjust = 0
    /\ weatherOverride = << >>
    /\ fitnessOverride = ""

\* The report on display has arrived but the reset effect has not yet stored
\* its data in whatIfData.
NewReportPending == report # 0 /\ whatIfData # <<[report |-> report, data |-> data]>>

\* The reset effect has just stored the data of the report on display: the
\* latest render still closed over the previous whatIfData.
NewReportTakenOver ==
    /\ report # 0
    /\ whatIfData = <<[report |-> report, data |-> data]>>
    /\ rendered # << >>
    /\ rendered[1].whatIfData # whatIfData

\* What a render of the report on display closes over when every control is
\* neutral.
NeutralClosure ==
    [FreshClosure EXCEPT
        !.tempAdjust = 0, !.distAdjust = 0, !.timeAdjust = 0,
        !.weightAdjust = 0, !.weatherOverride = << >>,
        !.fitnessOverride = ""]

\* The engine has not yet been run on the whatIfData of the report on display.
NotYetRecomputed == hypo = << >> \/ hypo[1].closure.whatIfData # whatIfData

\* C21: when a new report is loaded, the reset effect puts every adjustment
\* back to neutral, nothing moves them again before the effects have settled,
\* and the step that settles the effects leaves the what-if results of the new
\* report under neutral adjustments.
C21_NewReportResetsAdjustments ==
    /\ [](NewReportTakenOver => Neutral)
    /\ [][(NewReportTakenOver /\ ~Settled) => (Neutral' /\ report' = report)]_vars
    /\ [][(report # 0 /\ NotYetRecomputed /\ ~Settled /\ Settled')
              => /\ Neutral' /\ ~NewReportPending'
                 /\ <<report, data, user, startTime, whatIfData>>'
                       = <<report, data, user, startTime, whatIfData>>
                 /\ whatIfRisk' = <<newRisk(NeutralClosure)>>
                 /\ whatIfWarnings' = newWarnings(NeutralClosure)
                 /\ whatIfULScore' = newScore(NeutralClosure)]_vars

\* The second report has been taken over after the first one was explored
\* with a lower temperature: the slider is back at 0.
C21_Witness ==
    /\ NewReportTakenOver
    /\ report = 2
    /\ rendered[1].tempAdjust = -10
    /\ rendered[1].fitnessOverride = "high"
    /\ tempAdjust = 0
    /\ fitnessOverride = ""

\* The positions of the pack-weight slider (min -5, max 15, step 1).
WeightSliderPositions == (-5)..15

\* The closure of a render that shows trip t to profile u with the given
\* start time and the controls at the given positions.
ClosureAt(u, t, st, temp, dist, time, weather, fitness, weight) ==
    [report |-> 1, data |-> t, userProfile |-> u, startTime |-> st,
     whatIfData |-> <<[report |-> 1, data |-> t]>>,
     tempAdjust |-> temp, distAdjust |-> dist, timeAdjust |-> time,
     weightAdjust |-> weight, weatherOverride |-> weather,
     fitnessOverride |-> fitness]

\* C22: the pack-weight adjustment is an input to the recomputed risk analysis:
\* for the profile and the start time of the application there are a trip, a
\* position of the other controls and two positions of the weight slider for
\* which the what-if risk analysis differs.
C22_WeightAdjustmentChangesRisk ==
    \E t \in WhatIfTripSamples,
       temp \in TempAdjustSamples,
       dist \in DistAdjustSamples,
       time \in TimeAdjustSamples,
       weather \in WeatherOverrideSamples,
       fitness \in FitnessOverrideSamples \cup {""} :
        \E w1, w2 \in WeightSliderPositions :
            newRisk(ClosureAt(user, t, startTime, temp, dist, time,
                              weather, fitness, w1))
              # newRisk(ClosureAt(user, t, startTime, temp, dist, time,
                                  weather, fitness, w2))

-----------------------------------------------------------------------------
(* Properties of the report provider, checked under SpecProvider *)

\* generateTripReport has resolved; handleSubmit has computed the risk.
Resolved == tripReport # << >>
Analysed == Resolved /\ riskAnalysis # << >>

\* Line sets data.distanceKm or data.elevationM.
SetsTrailData(line) ==
    /\ SplitColonLength(line) = 2
    /\ trim(SplitColon0(line)) \in {Key_Distance_KM, Key_Elevation_M}

\* The provider call failed, or its answer has no DATA block, or no line of
\* the block carries a distance or an elevation.
NoUsableData ==
    \/ response.failed
    \/ response.dataBlock = << >>
    \/ \A i \in 1..Len(response.dataBlock[1]) :
           ~SetsTrailData(response.dataBlock[1][i])

\* C23: when the provider call fails or its answer carries no usable DATA
\* block, generateTripReport resolves with trip data of distance 0 and
\* elevation 0, and the risk analysis of that data contains exactly one
\* Uncertainty factor of 1 point, so the factor list is not empty.
C23_MissingDataIsFlagged ==
    /\ (Resolved /\ NoUsableData) =>
           /\ tripReport[1].data.distanceKm = 0
           /\ tripReport[1].data.elevationM = 0
    /\ (Analysed /\ NoUsableData) =>
           /\ ScoresOf(Result, "Uncertainty") = <<1>>
           /\ Result.factors # << >>
           /\ appReport = tripReport

\* The provider call threw and the risk analysis of the fallback report
\* consists of the Uncertainty factor.
C23_Witness ==
    /\ Analysed
    /\ response.failed
    /\ Len(Result.factors) = 1
    /\ Result.factors[1].name = "Uncertainty"

\* The number each sampled literal denotes, in tenths.
LiteralTenths ==
    { <<<<"0">>, 0>>, <<<<"0", ".", "5">>, 5>>, <<<<"7">>, 70>>,
      <<<<"1", "2", ".", "5">>, 125>>, <<<<"2", "0">>, 200>>,
      <<<<"2", "4">>, 240>>, <<<<"3", "5">>, 350>>,
      <<<<"8", "0", "0">>, 8000>>, <<<<"1", "2", "0", "0">>, 12000>>,
      <<<<"-", "5">>, -50>>, <<<<"-", "1", "2">>, -120>> }

\* The DATA block of the response holds the line "key: N" for literal n.
HasLine(key, n) ==
    /\ ~response.failed
    /\ response.dataBlock # << >>
    /\ \E i \in 1..Len(response.dataBlock[1]) :
           response.dataBlock[1][i] = DataLine(key, n[1])

\* C30: parseTripReport preserves the numbers of the provider: a DATA line
\* "Temp_C: N" yields tempC = N, "Distance_KM: N" yields distanceKm = N and
\* "Elevation_M: N" yields elevationM = N, 0 and negative N included.
C30_ParsePreservesNumbers ==
    Resolved =>
        \A n \in LiteralTenths :
            /\ HasLine(Key_Temp_C, n) => 10 * tripReport[1].data.tempC = n[2]
            /\ HasLine(Key_Distance_KM, n) => tripReport[1].data.distanceKm = n[2]
            /\ HasLine(Key_Elevation_M, n) => 10 * tripReport[1].data.elevationM = n[2]

-----------------------------------------------------------------------------
(* Further properties of calculateRiskAnalysis, checked under Spec *)

\* style={{ width: `${(score / 10) * 100}%` }} of the risk bar, in percent.
RiskBarWidth(score) == (score * 100) \div 10

\* C24: the score lies in 0..10, because the Uncertainty factor never comes
\* with both a Distance factor and an Elevation factor, so the risk bar is
\* never wider than 100%.
C24_ScoreAtMostTen ==
    Ran =>
        /\ Result.score \in 0..10
        /\ ~(/\ ScoresOf(Result, "Uncertainty") # << >>
             /\ ScoresOf(Result, "Distance") # << >>
             /\ ScoresOf(Result, "Elevation") # << >>)
        /\ RiskBarWidth(Result.score) <= 100

\* The five other rules all contribute their maximum: a score of 10.
C24_Witness ==
    /\ Ran
    /\ Result.score = 10
    /\ ScoresOf(Result, "Uncertainty") = << >>
    /\ RiskBarWidth(Result.score) = 100

\* The levels in increasing order of risk.
LevelRank(level) ==
    CASE level = "Low" -> 0
      [] level = "Moderate" -> 1
      [] level = "Elevated" -> 2
      [] level = "High" -> 3

\* The risk analysis of the state's trip and start time for the state's
\* experience and fitness f.
RiskAtFitness(f) ==
    calculateRiskAnalysis([user EXCEPT !.fitness = f], data, startTime)

\* The what-if risk analysis of the state's report when the fitness button f
\* is pressed and every other control is neutral.
RiskAtFitnessOverride(f) ==
    newRisk(ClosureAt(user, data, startTime, 0, 0, 0, << >>, f, 0))

\* r1 is at most r2, in score and in level.
NoRiskier(r1, r2) ==
    /\ r1.score <= r2.score
    /\ LevelRank(r1.level) <= LevelRank(r2.level)

\* C25: improving fitness never raises risk: for the experience, trip and
\* start time of the state, score(high) <= score(medium) <= score(low), the
\* level follows, and the same holds for the What-If fitness override.
C25_FitterIsNeverRiskier ==
    Ran =>
        /\ Result = RiskAtFitness(user.fitness)
        /\ NoRiskier(RiskAtFitness("high"), RiskAtFitness("medium"))
        /\ NoRiskier(RiskAtFitness("medium"), RiskAtFitness("low"))
        /\ NoRiskier(RiskAtFitnessOverride("high"), RiskAtFitnessOverride("medium"))
        /\ NoRiskier(RiskAtFitnessOverride("medium"), RiskAtFitnessOverride("low"))

\* A trip on which each step of fitness lowers the score, and the step from
\* low to high lowers the level.
C25_Witness ==
    /\ Ran
    /\ user.fitness = "high"
    /\ RiskAtFitness("high").score < RiskAtFitness("medium").score
    /\ RiskAtFitness("medium").score < RiskAtFitness("low").score
    /\ LevelRank(Result.level) < LevelRank(RiskAtFitness("low").level)
    /\ RiskAtFitnessOverride("high").score < RiskAtFitnessOverride("low").score

-----------------------------------------------------------------------------
(* Further properties of the What-If panel, checked under SpecWhatIf *)

\* C26: with every adjustment neutral, the what-if risk score and level equal
\* those of the canonical risk analysis that App computed for the report from
\* the profile, report.data and the hike's start time.
C26_NeutralWhatIfIsCanonical ==
    (Settled /\ report # 0 /\ Neutral) =>
        /\ whatIfRisk # << >>
        /\ riskAnalysis # << >>
        /\ whatIfRisk[1].score = riskAnalysis[1].score
        /\ whatIfRisk[1].level = riskAnalysis[1].level

\* C27: estimatePackWeight returns at least 4.0 kg, so the UL score of the
\* canonical report is one of 85, 65, 45, 30 and never 98 (for the report on
\* display and, before one is displayed, for every sampled trip the provider
\* may deliver); a settled what-if UL score of 98 comes with a negative weight
\* adjustment.
C27_CanonicalScoreNeverSuperUltralight ==
    /\ (report # 0 /\ Packed /\ Scored) =>
           /\ PackWeightTenths >= 40
           /\ Score \in {85, 65, 45, 30}
    /\ (report = 0) =>
           \A d \in PackTripSamples \cup WhatIfTripSamples :
               /\ estimatePackWeight(d) >= 40
               /\ calculateULScore(estimatePackWeight(d), d) \in {85, 65, 45, 30}
    /\ (Settled /\ report # 0 /\ whatIfULScore = 98) => weightAdjust < 0

\* The lightest canonical pack, 4.0 kg with a score of 85, shown next to a
\* what-if score of 98 reached by taking 5 kg off.
C27_Witness ==
    /\ Settled
    /\ report # 0
    /\ packWeight = <<40>>
    /\ ulScore = <<85>>
    /\ weightAdjust = -5
    /\ whatIfULScore = 98

-----------------------------------------------------------------------------
(* Properties of App's history, checked under SpecHistory *)

\* The ids of the items of history h.
Ids(h) == {h[i].id : i \in 1..Len(h)}

\* Id x has been handed out and no handler is still waiting to save it, yet
\* neither the history in memory nor the persisted one holds it: the item was
\* deleted, dropped by the limit, or never saved.
Removed(x) ==
    /\ x \in 1..(nextId - 1)
    /\ x \notin {r.id : r \in inflight}
    /\ x \notin Ids(history)
    /\ x \notin Ids(persisted)

\* C28: a removed history item stays removed from the history in memory and
\* from the persisted history in every interleaving of user actions and
\* provider completions, and neither history ever holds more than 20 items.
C28_DeletedItemStaysDeleted ==
    /\ [](Len(history) <= HistoryLimit /\ Len(persisted) <= HistoryLimit)
    /\ [][\A x \in 1..(HistoryLimit + MaxRequests) :
              Removed(x) => (x \notin Ids(history') /\ x \notin Ids(persisted'))]_vars

\* C29: whenever activeHistoryItem is not null, the displayed report and
\* risk analysis are the ones stored in that history item.
C29_ActiveItemIsDisplayed ==
    activeHistoryItem # << >> =>
        /\ appReport = <<activeHistoryItem[1].report>>
        /\ riskAnalysis = <<activeHistoryItem[1].riskAnalysis>>

====
